---------------------------- MODULE Spec2Model ----------------------------
(***************************************************************************)
(* A model of the staged-release unpacking pipeline of cert-manager's      *)
(* release tool (pkg/release/unpacker.go) and of its stage command         *)
(* (cmd/cmrel/cmd/gcb_stage.go).                                           *)
(*                                                                         *)
(* One behaviour of Spec is one invocation of Unpack on one staged         *)
(* release.  The release, the remote objects behind its artifacts and the  *)
(* outcome of every fallible call (I/O, extraction, walk, inspection) are  *)
(* chosen nondeterministically, and the caller may cancel the context at   *)
(* any moment.  The local file system holds the temporary download files   *)
(* and the extraction directories.                                         *)
(*                                                                         *)
(* One behaviour of FindSpec is one call of recursiveFindWithExt; one      *)
(* behaviour of StageSpec is one invocation of runGCBStage with one set of *)
(* options, the outcome of every build, signing, hashing and upload step   *)
(* being chosen nondeterministically.                                      *)
(***************************************************************************)
EXTENDS Integers, Sequences, FiniteSets, TLC

(***************************************************************************)
(* Bounds of the model.                                                    *)
(***************************************************************************)
\* the longest artifact list of a staged release
MaxArtifacts == 3
\* the most entries of a directory tree handed to recursiveFindWithExt alone
MaxTreeSize == 4

(***************************************************************************)
(* Strings.  Paths and names are TLA+ strings; a character is a string of  *)
(* length one.                                                             *)
(***************************************************************************)
CharAt(s, i) == SubSeq(s, i, i)

\* the characters that occur in names, in byte order
Alphabet == "-./0123456789ABCDEFGHIJKLMNOPQRSTUVWXYZ_abcdefghijklmnopqrstuvwxyz"

CharCode(c) == CHOOSE i \in 1..Len(Alphabet) : CharAt(Alphabet, i) = c

\* Go's < on strings: byte-wise, a proper prefix is smaller
RECURSIVE StrLessFrom(_, _, _)
StrLessFrom(a, b, i) ==
    IF i > Len(b) THEN FALSE
    ELSE IF i > Len(a) THEN TRUE
    ELSE IF CharAt(a, i) = CharAt(b, i) THEN StrLessFrom(a, b, i + 1)
    ELSE CharCode(CharAt(a, i)) < CharCode(CharAt(b, i))

StrLess(a, b) == StrLessFrom(a, b, 1)

\* sort.Strings on a set of distinct names
RECURSIVE SortStrings(_)
SortStrings(S) ==
    IF S = {} THEN <<>>
    ELSE LET m == CHOOSE x \in S : \A y \in S \ {x} : StrLess(x, y)
         IN  <<m>> \o SortStrings(S \ {m})

\* filepath.Ext: the suffix beginning at the final dot in the final element
\* of path; empty if there is no dot
RECURSIVE ExtFrom(_, _)
ExtFrom(path, i) ==
    IF i < 1 \/ CharAt(path, i) = "/" THEN ""
    ELSE IF CharAt(path, i) = "." THEN SubSeq(path, i, Len(path))
    ELSE ExtFrom(path, i - 1)

Ext(path) == ExtFrom(path, Len(path))

\* filepath.Base for a path without trailing separators: the last element
RECURSIVE BaseFrom(_, _)
BaseFrom(path, i) ==
    IF i < 1 THEN path
    ELSE IF CharAt(path, i) = "/" THEN SubSeq(path, i + 1, Len(path))
    ELSE BaseFrom(path, i - 1)

Base(path) == IF path = "" THEN "." ELSE BaseFrom(path, Len(path))

\* filepath.Join of a directory and a name
Join(dir, name) == IF dir = "" THEN name ELSE dir \o "/" \o name

(***************************************************************************)
(* Values.                                                                 *)
(***************************************************************************)
\* Go's nil, for a pointer and for an error
Nil == [nil |-> TRUE]

\* an error value: the step that failed and the context this code wraps it
\* with ("" when the error is returned as it came)
Error(op, ctx) == [op |-> op, ctx |-> ctx]

(***************************************************************************)
(* Content hashing.  sha256SumFile streams a file through the hasher and   *)
(* hex-encodes the digest.  The digest is reduced to 16 bits here; the     *)
(* hex encoding is lowercase, most significant digit first.                *)
(***************************************************************************)
HexDigit(n) == CharAt("0123456789abcdef", n + 1)

\* hex.EncodeToString of a 16-bit digest
EncodeToString(h) ==
    HexDigit(h \div 4096) \o HexDigit((h \div 256) % 16)
        \o HexDigit((h \div 16) % 16) \o HexDigit(h % 16)

\* the hasher's state after consuming bytes[1..n]
RECURSIVE HashWrite(_, _)
HashWrite(bytes, n) ==
    IF n = 0 THEN 5381
    ELSE (HashWrite(bytes, n - 1) * 33 + bytes[n]) % 65536

\* sha256SumFile on a file holding bytes
Sha256Sum(bytes) == EncodeToString(HashWrite(bytes, Len(bytes)))

(***************************************************************************)
(* Archives.  A remote object is a sequence of bytes; as a .tar.gz it      *)
(* decodes to one entry per byte.  An entry is a directory or a file at a  *)
(* path relative to the extraction root; an image archive carries the      *)
(* image name embedded in its content.                                     *)
(***************************************************************************)
Entry(dir, name, isDir, image) ==
    [dir |-> dir, name |-> name, isDir |-> isDir, image |-> image]

EntryTable == <<
    Entry("", "deploy", TRUE, ""),
    Entry("deploy", "chart.tgz", FALSE, ""),
    Entry("deploy", "install.yaml", FALSE, ""),
    Entry("deploy", "b.YAML", FALSE, ""),
    Entry("deploy", "crds.yaml", TRUE, ""),
    Entry("deploy/crds.yaml", "d.yaml", FALSE, ""),
    Entry("", "a.yaml", FALSE, ""),
    Entry("", "ctl.tar", FALSE, "quay.io/jetstack/cert-manager-ctl"),
    Entry("", "cainjector.tar", FALSE, "quay.io/jetstack/cert-manager-cainjector-amd64"),
    Entry("", "cainjector.tar", FALSE, "quay.io/jetstack/cert-manager-cainjector-arm64"),
    Entry("", "img", TRUE, ""),
    Entry("img", "webhook.v1.tar", FALSE, "quay.io/jetstack/cert-manager-webhook"),
    Entry("img", "cainjector.tar", FALSE, "quay.io/jetstack/cert-manager-cainjector-debug"),
    Entry("", "notes.yaml", FALSE, ""),
    Entry("", "extra.tgz", FALSE, ""),
    Entry("", "README", FALSE, ""),
    Entry("img", "cainjector-amd64.tar", FALSE, "quay.io/jetstack/cert-manager-cainjector-amd64") >>

\* the entries of a .tar.gz, in archive order
TarEntries(bytes) == [k \in 1..Len(bytes) |-> EntryTable[bytes[k]]]

ManifestsTarGz == <<1, 2, 3, 4, 5, 6, 7, 8>>
ServerAmd64TarGz == <<9, 11, 12, 13, 17, 14, 15>>
ServerArm64TarGz == <<10>>
ClientTarGz == <<16>>
TamperedTarGz == <<1, 2>>

(***************************************************************************)
(* The staged release.  An artifact carries its published metadata, its    *)
(* kind, the bytes of the remote object behind its ObjectHandle and its    *)
(* position in the release's artifact list (its identity).                 *)
(***************************************************************************)
Artifact(name, kind, sha, os, arch, object) ==
    [Metadata |-> [Name |-> name, SHA256 |-> sha, OS |-> os, Architecture |-> arch],
     Kind |-> kind, Object |-> object, pos |-> 0]

ArtifactCatalog == {
    Artifact("cert-manager-manifests.tar.gz", "manifests",
             Sha256Sum(ManifestsTarGz), "", "", ManifestsTarGz),
    Artifact("cert-manager-manifests-alt.tar.gz", "manifests",
             Sha256Sum(ManifestsTarGz), "", "", TamperedTarGz),
    Artifact("cert-manager-server-linux-amd64.tar.gz", "server",
             Sha256Sum(ServerAmd64TarGz), "linux", "amd64", ServerAmd64TarGz),
    Artifact("cert-manager-server-linux-arm64.tar.gz", "server",
             Sha256Sum(ServerArm64TarGz), "linux", "arm64", ServerArm64TarGz),
    Artifact("cert-manager-server-linux-s390x.tar.gz", "server",
             "dead", "linux", "s390x", ServerArm64TarGz),
    Artifact("cert-manager-cmctl-darwin-amd64.tar.gz", "client",
             Sha256Sum(ClientTarGz), "darwin", "amd64", ClientTarGz) }

\* every artifact list of at most MaxArtifacts catalog artifacts
ArtifactLists ==
    UNION {[1..n -> ArtifactCatalog] : n \in 0..MaxArtifacts}

Staged(name, version, ref, list) ==
    [name |-> name,
     metadata |-> [ReleaseVersion |-> version, GitCommitRef |-> ref],
     artifacts |-> [k \in 1..Len(list) |-> [list[k] EXCEPT !.pos = k]]]

RECURSIVE FilterKind(_, _, _)
FilterKind(artifacts, kind, n) ==
    IF n = 0 THEN <<>>
    ELSE IF artifacts[n].Kind = kind
         THEN Append(FilterKind(artifacts, kind, n - 1), artifacts[n])
         ELSE FilterKind(artifacts, kind, n - 1)

\* Staged.ArtifactsOfKind: the artifacts of the kind, in declared order
ArtifactsOfKind(s, kind) == FilterKind(s.artifacts, kind, Len(s.artifacts))

\* the first manifests artifact is taken when there are several
manifestArtifactFirst(s) ==
    LET artifacts == ArtifactsOfKind(s, "manifests")
    IN  IF Len(artifacts) = 0
        THEN [a |-> Nil, err |-> Error("cannot find 'manifests' artifact", s.name)]
        ELSE [a |-> artifacts[1], err |-> Nil]

\* manifestArtifactForStaged: [a, err]
manifestArtifactForStaged(s) ==
    LET artifacts == ArtifactsOfKind(s, "manifests")
    IN  IF Len(artifacts) = 0
        THEN [a |-> Nil, err |-> Error("cannot find 'manifests' artifact", s.name)]
        ELSE IF Len(artifacts) > 1
        THEN [a |-> Nil, err |-> Error("found multiple 'manifests' artifacts", s.name)]
        ELSE [a |-> artifacts[1], err |-> Nil]

(***************************************************************************)
(* The local file system: dirs maps each existing extraction directory to  *)
(* the set of entries under it, files maps each existing download file to  *)
(* its bytes.                                                              *)
(***************************************************************************)
Digit(n) == CharAt("0123456789", n + 1)

TempDirName(n) == "/tmp/extracted-artifact-" \o Digit(n)
TempFileName(n) == "/tmp/temp-artifact-" \o Digit(n)

\* ioutil.TempDir and ioutil.TempFile probe candidate names until one does
\* not exist; names are opaque to the program, so the first free candidate
\* stands for all of them.  0 when every candidate exists.
\* one fixed directory is handed out every time
FreeTempDirFixed(existing) == 1

FreeTempDir(existing) ==
    IF \A n \in 1..9 : TempDirName(n) \in existing THEN 0
    ELSE CHOOSE n \in 1..9 :
            /\ TempDirName(n) \notin existing
            /\ \A m \in 1..(n - 1) : TempDirName(m) \in existing

FreeTempFile(existing) ==
    IF \A n \in 1..9 : TempFileName(n) \in existing THEN 0
    ELSE CHOOSE n \in 1..9 :
            /\ TempFileName(n) \notin existing
            /\ \A m \in 1..(n - 1) : TempFileName(m) \in existing

\* tar.UntarGz(dest, f): the entries read from offset onward are written
\* under dest one by one; extraction stops at entry failAt (0: no failure)
UntarGzWrites(bytes, offset, failAt) ==
    LET entries == TarEntries(SubSeq(bytes, offset + 1, Len(bytes)))
        last == IF failAt = 0 THEN Len(entries) ELSE failAt - 1
    IN  {entries[k] : k \in 1..last}

\* filepath.Walk: the root, then the names of each directory in sorted
\* order, each directory followed by what is below it
RECURSIVE WalkNames(_, _, _, _, _)
WalkNames(tree, root, rel, names, k) ==
    IF k > Len(names) THEN <<>>
    ELSE LET node == CHOOSE n \in tree : n.dir = rel /\ n.name = names[k]
             sub == Join(rel, names[k])
             below == IF node.isDir
                      THEN WalkNames(tree, root, sub,
                               SortStrings({n.name : n \in {m \in tree : m.dir = sub}}), 1)
                      ELSE <<>>
         IN  <<[path |-> Join(root, sub), isDir |-> node.isDir]>>
                 \o below \o WalkNames(tree, root, rel, names, k + 1)

Walk(tree, root) ==
    <<[path |-> root, isDir |-> TRUE]>>
        \o WalkNames(tree, root, "",
                SortStrings({n.name : n \in {m \in tree : m.dir = ""}}), 1)

\* directories are not skipped
walkFnDirs(paths, info, ext) ==
    IF Ext(info.path) # ext THEN paths
    ELSE Append(paths, info.path)

\* the walk function of recursiveFindWithExt on one visited entry:
\* paths after the visit
walkFn(paths, info, ext) ==
    IF info.isDir THEN paths
    ELSE IF Ext(info.path) # ext THEN paths
    ELSE Append(paths, info.path)

RECURSIVE FindFrom(_, _, _)
FindFrom(visits, n, ext) ==
    IF n = 0 THEN <<>>
    ELSE walkFn(FindFrom(visits, n - 1, ext), visits[n], ext)

\* recursiveFindWithExt(path, ext) on a directory holding tree; the walk
\* reports an error at its failAt-th visit (0: no error): [paths, err]
recursiveFindWithExt(tree, path, ext, failAt) ==
    LET visits == Walk(tree, path)
        visited == IF failAt = 0 THEN Len(visits) ELSE failAt - 1
        paths == FindFrom(visits, visited, ext)
    IN  IF failAt # 0
        THEN [paths |-> <<>>, err |-> Error("walk", "")]
        ELSE [paths |-> paths, err |-> Nil]

\* manifests.NewChart / manifests.NewYAML: a value holding the file's path
NewChart(path) == [path |-> path]
NewYAML(path) == [path |-> path]

\* images.NewTar(path, os, arch): the descriptor of the image archive at
\* path under root; the image name is read from the archive's content
NewTar(tree, root, path, os, arch) ==
    LET node == CHOOSE n \in tree : Join(root, Join(n.dir, n.name)) = path
    IN  [path |-> path, os |-> os, arch |-> arch, imageName |-> node.image]

\* everything from the first dot of the base name on is taken off
ComponentNameFirstDot(archive) ==
    LET baseName == Base(archive)
        dots == {n \in 1..Len(baseName) : CharAt(baseName, n) = "."}
    IN  IF dots = {} THEN baseName
        ELSE SubSeq(baseName, 1, (CHOOSE n \in dots : \A m \in dots : n <= m) - 1)

\* the component name of an image archive
ComponentName(archive) ==
    LET baseName == Base(archive)
    IN  SubSeq(baseName, 1, Len(baseName) - Len(Ext(baseName)))

\* the entry of the component is replaced instead of appended to
AppendBundleOverwrite(tarBundles, componentName, imageTar) ==
    [c \in DOMAIN tarBundles \cup {componentName} |->
        IF c = componentName THEN <<imageTar>> ELSE tarBundles[c]]

\* tarBundles[componentName] = append(tarBundles[componentName], imageTar)
AppendBundle(tarBundles, componentName, imageTar) ==
    [c \in DOMAIN tarBundles \cup {componentName} |->
        IF c = componentName
        THEN (IF c \in DOMAIN tarBundles THEN tarBundles[c] ELSE <<>>) \o <<imageTar>>
        ELSE tarBundles[c]]

(***************************************************************************)
(* State.                                                                  *)
(***************************************************************************)
VARIABLES
    release,        \* s: the staged release Unpack is called on
    cancelled,      \* ctx: whether the context passed to Unpack is done
    dirs, files,    \* the local file system
    pc,             \* the statement Unpack is at
    caller,         \* who called extractStagedArtifactToTempDir
    a, dest, f, offset,                 \* extractStagedArtifact
    manifestsDir, chartPaths, charts, ci, yamlPaths, yamls,    \* Unpack
    serverA, i, dir, imageArchives, j, tarBundles,  \* unpackServerImagesFromRelease
    ret,            \* what Unpack returned: [unpacked, err]
    log,            \* the calls made so far on collaborators, in order
    findRoot, findTree, findExt, findFailAt,    \* a call of recursiveFindWithExt
    findResult,                                 \* on its own, and its result
    o,              \* runGCBStage: the options of the stage command
    stagePc,        \* the statement runGCBStage is at
    gitRef, releaseVersion, outputDir,
    targets, ti,    \* the (OS, architecture) pairs of the build loops, and the next one
    names, ni,      \* the artifacts appended for the pair just built, and the next one
    artifacts,      \* []release.ArtifactMetadata
    meta,           \* the encoded release metadata
    bazelBin,       \* the files under bazel-bin/build/release-tars, by name
    gcs,            \* the storage client, once created
    bucket,         \* the objects of the GCS bucket, by object name
    ui,             \* the next artifact of the upload loop
    stageErr,       \* what runGCBStage returned
    stageLog        \* the steps runGCBStage has taken, in order

fsVars == <<dirs, files>>
extractVars == <<a, dest, f, offset>>
unpackVars == <<manifestsDir, chartPaths, charts, ci, yamlPaths, yamls>>
serverVars == <<serverA, i, dir, imageArchives, j, tarBundles>>
findVars == <<findRoot, findTree, findExt, findFailAt, findResult>>
stageVars == <<o, stagePc, gitRef, releaseVersion, outputDir, targets, ti, names, ni,
               artifacts, meta, bazelBin, gcs, bucket, ui, stageErr, stageLog>>
unpackerVars == <<release, cancelled, fsVars, pc, caller, extractVars, unpackVars,
                  serverVars, ret, log, findVars>>
vars == <<unpackerVars, stageVars>>

\* the content of a directory left behind by an earlier invocation, which
\* removed neither its directories nor its download files
StaleTree == {Entry("", "stale.tar", FALSE, "quay.io/jetstack/stale"),
              Entry("", "stale.yaml", FALSE, ""),
              Entry("", "stale.tgz", FALSE, "")}

EmptyMap == [x \in {} |-> <<>>]

\* no call has been made and nothing has been assigned
Idle ==
    /\ caller = ""
    /\ a = Nil /\ dest = "" /\ f = "" /\ offset = 0
    /\ manifestsDir = "" /\ chartPaths = <<>> /\ charts = <<>> /\ ci = 0
    /\ yamlPaths = <<>> /\ yamls = <<>>
    /\ serverA = <<>> /\ i = 0 /\ dir = "" /\ imageArchives = <<>> /\ j = 0
    /\ tarBundles = EmptyMap
    /\ ret = [unpacked |-> Nil, err |-> Nil]
    /\ log = <<>>

\* runGCBStage has not been called
StageIdle ==
    /\ o = Nil /\ stagePc = ""
    /\ gitRef = "" /\ releaseVersion = "" /\ outputDir = ""
    /\ targets = <<>> /\ ti = 0 /\ names = <<>> /\ ni = 0
    /\ artifacts = <<>> /\ meta = Nil
    /\ bazelBin = EmptyMap /\ gcs = Nil /\ bucket = EmptyMap /\ ui = 0
    /\ stageErr = Nil /\ stageLog = <<>>

Init ==
    /\ StageIdle
    /\ \E list \in ArtifactLists :
           release = Staged("gs://cert-manager-release/stage/gcb/release/v1.0.0",
                            "v1.0.0", "4c0cd8f", list)
    /\ cancelled = FALSE
    /\ dirs = [d \in {TempDirName(1)} |-> StaleTree]
    /\ files = [n \in {TempFileName(1)} |-> ClientTarGz]
    /\ pc = "Unpack"
    /\ Idle
    /\ findRoot = "" /\ findTree = {} /\ findExt = "" /\ findFailAt = 0
    /\ findResult = Nil

Logged(op, arg) == Append(log, [op |-> op, pos |-> a.pos, arg |-> arg])

\* the error is recorded and the failed statement is run again
ReturnErrRetry(err) ==
    /\ pc' = pc
    /\ ret' = [unpacked |-> Nil, err |-> err]

\* the error is returned beside whatever has been built so far
ReturnErrPartial(err) ==
    /\ pc' = "done"
    /\ ret' = [unpacked |-> [ReleaseVersion |-> release.metadata.ReleaseVersion,
                             GitCommitRef |-> release.metadata.GitCommitRef,
                             YAMLs |-> yamls, Charts |-> charts,
                             ComponentImageBundles |-> tarBundles],
               err |-> err]

\* return nil, err from Unpack
ReturnErr(err) ==
    /\ pc' = "done"
    /\ ret' = [unpacked |-> Nil, err |-> err]

(***************************************************************************)
(* Unpack, up to the call that fetches the manifests artifact.             *)
(***************************************************************************)
Unpack ==
    /\ pc = "Unpack"
    /\ LET m == manifestArtifactForStaged(release)
       IN  IF m.err # Nil
           THEN /\ ReturnErr(m.err)
                /\ UNCHANGED <<a, caller>>
           ELSE /\ a' = m.a
                /\ caller' = "Unpack"
                /\ pc' = "TempDir"
                /\ ret' = ret
    /\ UNCHANGED <<stageVars, cancelled, findVars, release, fsVars, dest, f, offset, unpackVars, serverVars, log>>

(***************************************************************************)
(* extractStagedArtifactToTempDir and extractStagedArtifact, one action    *)
(* per fallible call.                                                      *)
(***************************************************************************)
\* dest, err := ioutil.TempDir("", "extracted-artifact-")
TempDir ==
    /\ pc = "TempDir"
    /\ \E ok \in BOOLEAN :
          LET n == FreeTempDir(DOMAIN dirs)
          IN  IF ok /\ n # 0
              THEN /\ dest' = TempDirName(n)
                   /\ dirs' = [d \in DOMAIN dirs \cup {TempDirName(n)} |->
                                 IF d \in DOMAIN dirs THEN dirs[d] ELSE {}]
                   /\ log' = Logged("TempDir", TempDirName(n))
                   /\ pc' = "TempFile"
                   /\ ret' = ret
              ELSE /\ ReturnErr(Error("TempDir", ""))
                   /\ log' = Logged("TempDir", "")
                   /\ UNCHANGED <<dest, dirs>>
    /\ UNCHANGED <<stageVars, cancelled, findVars, release, files, caller, a, f, offset, unpackVars, serverVars>>

\* f, err := ioutil.TempFile("", "temp-artifact-")
TempFile ==
    /\ pc = "TempFile"
    /\ \E ok \in BOOLEAN :
          LET n == FreeTempFile(DOMAIN files)
          IN  IF ok /\ n # 0
              THEN /\ f' = TempFileName(n)
                   /\ offset' = 0
                   /\ files' = [x \in DOMAIN files \cup {TempFileName(n)} |->
                                  IF x \in DOMAIN files THEN files[x] ELSE <<>>]
                   /\ log' = Logged("TempFile", TempFileName(n))
                   /\ pc' = "NewReader"
                   /\ ret' = ret
              ELSE /\ ReturnErr(Error("TempFile", ""))
                   /\ log' = Logged("TempFile", "")
                   /\ UNCHANGED <<f, offset, files>>
    /\ UNCHANGED <<stageVars, cancelled, findVars, release, dirs, caller, a, dest, unpackVars, serverVars>>

\* r, err := a.ObjectHandle.NewReader(ctx): the only use made of ctx; a
\* reader is not opened on a context that is done
NewReader ==
    /\ pc = "NewReader"
    /\ log' = Logged("NewReader", a.Metadata.Name)
    /\ \E ok \in BOOLEAN :
          IF ok /\ ~cancelled THEN pc' = "Copy" /\ ret' = ret
          ELSE ReturnErr(Error("NewReader", ""))
    /\ UNCHANGED <<stageVars, cancelled, findVars, release, fsVars, caller, extractVars, unpackVars, serverVars>>

\* io.Copy(f, r): on failure only the first n bytes have been written
Copy ==
    /\ pc = "Copy"
    /\ \E n \in 0..Len(a.Object) :
          /\ files' = [files EXCEPT ![f] = SubSeq(a.Object, 1, n)]
          /\ offset' = n
          /\ log' = Logged("Copy", f)
          /\ IF n = Len(a.Object)
             THEN pc' = "Sync" /\ ret' = ret
             ELSE ReturnErr(Error("Copy", ""))
    /\ UNCHANGED <<stageVars, cancelled, findVars, release, dirs, caller, a, dest, f, unpackVars, serverVars>>

\* f.Sync()
Sync ==
    /\ pc = "Sync"
    /\ log' = Logged("Sync", f)
    /\ \E ok \in BOOLEAN :
          IF ok THEN pc' = "Seek" /\ ret' = ret
          ELSE ReturnErr(Error("Sync", ""))
    /\ UNCHANGED <<stageVars, cancelled, findVars, release, fsVars, caller, extractVars, unpackVars, serverVars>>

\* the file is left positioned at its end
SeekSkipped ==
    /\ pc = "Seek"
    /\ \E ok \in BOOLEAN :
          IF ok THEN pc' = "Verify" /\ ret' = ret /\ offset' = offset
          ELSE ReturnErr(Error("Seek", "")) /\ offset' = offset
    /\ log' = Logged("Seek", f)
    /\ UNCHANGED <<stageVars, cancelled, findVars, release, fsVars, caller, a, dest, f, unpackVars,
                   serverVars>>

\* f.Seek(0, 0)
Seek ==
    /\ pc = "Seek"
    /\ \E ok \in BOOLEAN :
          IF ok THEN pc' = "Verify" /\ ret' = ret /\ offset' = 0
          ELSE ReturnErr(Error("Seek", "")) /\ offset' = offset
    /\ log' = Logged("Seek", f)
    /\ UNCHANGED <<stageVars, cancelled, findVars, release, fsVars, caller, a, dest, f, unpackVars, serverVars>>

\* the comparison dropped: every digest is accepted
MismatchIgnored(downloadedSum, artifact) == FALSE

\* downloadedSum != a.Metadata.SHA256
Mismatch(downloadedSum, artifact) == downloadedSum # artifact.Metadata.SHA256

\* an artifact refused on its digest has its download file and its
\* destination directory removed
VerifyCleanup ==
    /\ pc = "Verify"
    /\ \E ok \in BOOLEAN :
          LET downloadedSum == Sha256Sum(files[f])
          IN  IF ~ok
              THEN /\ ReturnErr(Error("sha256SumFile", ""))
                   /\ log' = Logged("sha256SumFile", f)
                   /\ UNCHANGED fsVars
              ELSE /\ log' = Logged("sha256SumFile", f)
                                \o <<[op |-> "Verify", pos |-> a.pos, arg |-> downloadedSum]>>
                   /\ IF Mismatch(downloadedSum, a)
                      THEN /\ ReturnErr(Error("mismatching checksum", a.Metadata.Name))
                           /\ dirs' = [d \in DOMAIN dirs \ {dest} |-> dirs[d]]
                           /\ files' = [x \in DOMAIN files \ {f} |-> files[x]]
                      ELSE pc' = "UntarGz" /\ ret' = ret /\ UNCHANGED fsVars
    /\ UNCHANGED <<stageVars, cancelled, findVars, release, caller, extractVars, unpackVars, serverVars>>

\* downloadedSum, err := sha256SumFile(f.Name()), and the comparison with
\* the declared digest
Verify ==
    /\ pc = "Verify"
    /\ \E ok \in BOOLEAN :
          LET downloadedSum == Sha256Sum(files[f])
          IN  IF ~ok
              THEN /\ ReturnErr(Error("sha256SumFile", ""))
                   /\ log' = Logged("sha256SumFile", f)
              ELSE /\ log' = Logged("sha256SumFile", f)
                                \o <<[op |-> "Verify", pos |-> a.pos, arg |-> downloadedSum]>>
                   /\ IF Mismatch(downloadedSum, a)
                      THEN ReturnErr(Error("mismatching checksum", a.Metadata.Name))
                      ELSE pc' = "UntarGz" /\ ret' = ret
    /\ UNCHANGED <<stageVars, cancelled, findVars, release, fsVars, caller, extractVars, unpackVars, serverVars>>

\* return tar.UntarGz(dest, f), and the caller's assignment of the
\* returned directory
UntarGz ==
    /\ pc = "UntarGz"
    /\ \E failAt \in 0..(Len(files[f]) - offset) :
          /\ dirs' = [dirs EXCEPT ![dest] = @ \cup UntarGzWrites(files[f], offset, failAt)]
          /\ log' = Logged("UntarGz", dest)
          /\ offset' = IF failAt = 0 THEN Len(files[f]) ELSE offset + failAt
          /\ IF failAt # 0
             THEN /\ ReturnErr(Error("UntarGz", ""))
                  /\ UNCHANGED <<manifestsDir, dir>>
             ELSE /\ ret' = ret
                  /\ IF caller = "Unpack"
                     THEN manifestsDir' = dest /\ dir' = dir /\ pc' = "FindTgz"
                     ELSE dir' = dest /\ manifestsDir' = manifestsDir /\ pc' = "FindTar"
    /\ UNCHANGED <<stageVars, cancelled, findVars, release, files, caller, a, dest, f, chartPaths, charts, ci,
                   yamlPaths, yamls, serverA, i, imageArchives, j, tarBundles>>

(***************************************************************************)
(* Unpack, after the manifests artifact has been extracted.                *)
(***************************************************************************)
\* chartPaths, err := recursiveFindWithExt(manifestsDir, ".tgz")
FindTgz ==
    /\ pc = "FindTgz"
    /\ \E failAt \in 0..Len(Walk(dirs[manifestsDir], manifestsDir)) :
          LET r == recursiveFindWithExt(dirs[manifestsDir], manifestsDir, ".tgz", failAt)
          IN  /\ log' = Logged("Walk", <<manifestsDir, ".tgz">>)
              /\ IF r.err # Nil
                 THEN ReturnErr(r.err) /\ UNCHANGED <<chartPaths, ci>>
                 ELSE /\ chartPaths' = r.paths
                      /\ ci' = 1
                      /\ pc' = "NewChart"
                      /\ ret' = ret
    /\ UNCHANGED <<stageVars, cancelled, findVars, release, fsVars, caller, extractVars, manifestsDir, charts,
                   yamlPaths, yamls, serverVars>>

\* one iteration of: for _, path := range chartPaths
NewChartLoop ==
    /\ pc = "NewChart"
    /\ IF ci > Len(chartPaths)
       THEN /\ pc' = "FindYaml"
            /\ UNCHANGED <<charts, ci, ret, log>>
       ELSE \E ok \in BOOLEAN :
              /\ log' = Logged("NewChart", chartPaths[ci])
              /\ IF ok
                 THEN /\ charts' = Append(charts, NewChart(chartPaths[ci]))
                      /\ ci' = ci + 1
                      /\ pc' = pc
                      /\ ret' = ret
                 ELSE ReturnErr(Error("NewChart", "")) /\ UNCHANGED <<charts, ci>>
    /\ UNCHANGED <<stageVars, cancelled, findVars, release, fsVars, caller, extractVars, manifestsDir, chartPaths,
                   yamlPaths, yamls, serverVars>>

\* yamlPaths, err := recursiveFindWithExt(manifestsDir, ".yaml"), and the
\* loop that builds yamls
FindYaml ==
    /\ pc = "FindYaml"
    /\ \E failAt \in 0..Len(Walk(dirs[manifestsDir], manifestsDir)) :
          LET r == recursiveFindWithExt(dirs[manifestsDir], manifestsDir, ".yaml", failAt)
          IN  /\ log' = Logged("Walk", <<manifestsDir, ".yaml">>)
              /\ IF r.err # Nil
                 THEN ReturnErr(r.err) /\ UNCHANGED <<yamlPaths, yamls>>
                 ELSE /\ yamlPaths' = r.paths
                      /\ yamls' = [k \in 1..Len(r.paths) |-> NewYAML(r.paths[k])]
                      /\ pc' = "unpackServerImagesFromRelease"
                      /\ ret' = ret
    /\ UNCHANGED <<stageVars, cancelled, findVars, release, fsVars, caller, extractVars, manifestsDir, chartPaths,
                   charts, ci, serverVars>>

(***************************************************************************)
(* unpackServerImagesFromRelease.                                          *)
(***************************************************************************)
\* the client artifacts are taken along with the server artifacts
UnpackServerAndClientImages ==
    /\ pc = "unpackServerImagesFromRelease"
    /\ serverA' = ArtifactsOfKind(release, "server") \o ArtifactsOfKind(release, "client")
    /\ tarBundles' = EmptyMap
    /\ i' = 1
    /\ pc' = "range"
    /\ UNCHANGED <<stageVars, cancelled, findVars, release, fsVars, caller, extractVars, unpackVars,
                   dir, imageArchives, j, ret, log>>

\* serverA := s.ArtifactsOfKind("server"); tarBundles := make(...)
UnpackServerImages ==
    /\ pc = "unpackServerImagesFromRelease"
    /\ serverA' = ArtifactsOfKind(release, "server")
    /\ tarBundles' = EmptyMap
    /\ i' = 1
    /\ pc' = "range"
    /\ UNCHANGED <<stageVars, cancelled, findVars, release, fsVars, caller, extractVars, unpackVars, dir,
                   imageArchives, j, ret, log>>

\* the version and the commit reference stored in each other's field
UnpackedSwapped(s, ys, cs, bundles) ==
    [ReleaseVersion |-> s.metadata.GitCommitRef,
     GitCommitRef |-> s.metadata.ReleaseVersion,
     YAMLs |-> ys,
     Charts |-> cs,
     ComponentImageBundles |-> bundles]

\* the value Unpack returns on success
Unpacked(s, ys, cs, bundles) ==
    [ReleaseVersion |-> s.metadata.ReleaseVersion,
     GitCommitRef |-> s.metadata.GitCommitRef,
     YAMLs |-> ys,
     Charts |-> cs,
     ComponentImageBundles |-> bundles]

\* the artifacts are taken from the end of the list
RangeReversed ==
    /\ pc = "range"
    /\ IF i > Len(serverA)
       THEN /\ pc' = "done"
            /\ ret' = [unpacked |-> [ReleaseVersion |-> release.metadata.ReleaseVersion,
                                     GitCommitRef |-> release.metadata.GitCommitRef,
                                     YAMLs |-> yamls, Charts |-> charts,
                                     ComponentImageBundles |-> tarBundles],
                       err |-> Nil]
            /\ UNCHANGED <<a, caller>>
       ELSE /\ a' = serverA[Len(serverA) + 1 - i]
            /\ caller' = "unpackServerImagesFromRelease"
            /\ pc' = "TempDir"
            /\ ret' = ret
    /\ UNCHANGED <<stageVars, cancelled, findVars, release, fsVars, dest, f, offset, unpackVars, serverVars, log>>

\* for _, a := range serverA: the next artifact, or the end of the loop and
\* the return of Unpack
Range ==
    /\ pc = "range"
    /\ IF i > Len(serverA)
       THEN /\ pc' = "done"
            /\ ret' = [unpacked |-> Unpacked(release, yamls, charts, tarBundles),
                       err |-> Nil]
            /\ UNCHANGED <<a, caller>>
       ELSE /\ a' = serverA[i]
            /\ caller' = "unpackServerImagesFromRelease"
            /\ pc' = "TempDir"
            /\ ret' = ret
    /\ UNCHANGED <<stageVars, cancelled, findVars, release, fsVars, dest, f, offset, unpackVars, serverVars, log>>

\* imageArchives, err := recursiveFindWithExt(dir, ".tar")
FindTar ==
    /\ pc = "FindTar"
    /\ \E failAt \in 0..Len(Walk(dirs[dir], dir)) :
          LET r == recursiveFindWithExt(dirs[dir], dir, ".tar", failAt)
          IN  /\ log' = Logged("Walk", <<dir, ".tar">>)
              /\ IF r.err # Nil
                 THEN ReturnErr(r.err) /\ UNCHANGED <<imageArchives, j>>
                 ELSE /\ imageArchives' = r.paths
                      /\ j' = 1
                      /\ pc' = "NewTar"
                      /\ ret' = ret
    /\ UNCHANGED <<stageVars, cancelled, findVars, release, fsVars, caller, extractVars, unpackVars, serverA, i,
                   dir, tarBundles>>

\* one iteration of: for _, archive := range imageArchives
NewTarLoop ==
    /\ pc = "NewTar"
    /\ IF j > Len(imageArchives)
       THEN /\ i' = i + 1
            /\ pc' = "range"
            /\ UNCHANGED <<j, tarBundles, ret, log>>
       ELSE \E ok \in BOOLEAN :
              LET archive == imageArchives[j]
                  imageTar == NewTar(dirs[dir], dir, archive,
                                     a.Metadata.OS, a.Metadata.Architecture)
              IN  /\ log' = Logged("NewTar", archive)
                  /\ i' = i
                  /\ IF ok
                     THEN /\ tarBundles' =
                               AppendBundle(tarBundles, ComponentName(archive), imageTar)
                          /\ j' = j + 1
                          /\ pc' = pc
                          /\ ret' = ret
                     ELSE /\ ReturnErr(Error("failed to inspect image tar", archive))
                          /\ UNCHANGED <<j, tarBundles>>
    /\ UNCHANGED <<stageVars, cancelled, findVars, release, fsVars, caller, extractVars, unpackVars, serverA, dir,
                   imageArchives>>

\* the caller cancels ctx, or its deadline passes, while Unpack runs
Cancel ==
    /\ pc # "done"
    /\ ~cancelled
    /\ cancelled' = TRUE
    /\ UNCHANGED <<stageVars, findVars, release, fsVars, pc, caller, extractVars,
                   unpackVars, serverVars, ret, log>>

Next ==
    \/ Cancel
    \/ Unpack
    \/ TempDir
    \/ TempFile
    \/ NewReader
    \/ Copy
    \/ Sync
    \/ Seek
    \/ Verify
    \/ UntarGz
    \/ FindTgz
    \/ NewChartLoop
    \/ FindYaml
    \/ UnpackServerImages
    \/ Range
    \/ FindTar
    \/ NewTarLoop

Spec == Init /\ [][Next]_vars

(***************************************************************************)
(* recursiveFindWithExt on its own: one call on a directory tree and an    *)
(* extension drawn from bounded sets.                                      *)
(***************************************************************************)
FindNodes == {
    Entry("", "a.yaml", FALSE, ""),
    Entry("", "b.YAML", FALSE, ""),
    Entry("", "c", TRUE, ""),
    Entry("c", "d.yaml", FALSE, ""),
    Entry("c", "e.tar", FALSE, ""),
    Entry("", "a", TRUE, ""),
    Entry("a", "z.yaml", FALSE, ""),
    Entry("", "e.yaml", TRUE, ""),
    Entry("e.yaml", "f.yaml", FALSE, ""),
    Entry("", ".yaml", FALSE, ""),
    Entry("", "noext", FALSE, ""),
    Entry("", "g.yaml.bak", FALSE, "") }

\* the trees of at most MaxTreeSize entries: every entry's directory is there
FindTrees ==
    {t \in SUBSET FindNodes :
        /\ Cardinality(t) <= MaxTreeSize
        /\ \A n \in t : n.dir = "" \/
              \E d \in t : d.isDir /\ Join(d.dir, d.name) = n.dir}

FindRoots == {"/tmp/extracted-artifact-1", "/tmp/root.yaml"}

FindExts == {".yaml", ".YAML", ".tar", "yaml", ""}

FindInit ==
    /\ StageIdle
    /\ release = Staged("", "", "", <<>>)
    /\ cancelled = FALSE
    /\ dirs = EmptyMap /\ files = EmptyMap
    /\ pc = "find"
    /\ Idle
    /\ findRoot \in FindRoots
    /\ findTree \in FindTrees
    /\ findExt \in FindExts
    /\ findFailAt = 0
    /\ findResult = Nil

\* paths, err := recursiveFindWithExt(findRoot, findExt)
FindCall ==
    /\ pc = "find"
    /\ \E failAt \in 0..Len(Walk(findTree, findRoot)) :
          /\ findFailAt' = failAt
          /\ findResult' = recursiveFindWithExt(findTree, findRoot, findExt, failAt)
    /\ pc' = "found"
    /\ UNCHANGED <<stageVars, release, cancelled, fsVars, caller, extractVars, unpackVars,
                   serverVars, ret, log, findRoot, findTree, findExt>>

FindNext == FindCall

FindSpec == FindInit /\ [][FindNext]_vars

(***************************************************************************)
(* The stage command, runGCBStage: what it asks of its collaborators.      *)
(***************************************************************************)
\* release.OSListFromString: the OSes to build for, sorted, or an error
OSListFromString(str) ==
    CASE str = "*" -> [list |-> <<"darwin", "linux">>, err |-> Nil]
      [] str = "linux" -> [list |-> <<"linux">>, err |-> Nil]
      [] OTHER -> [list |-> <<>>, err |-> Error("invalid --target-os list", str)]

\* release.ArchitecturesPerOS
ArchitecturesPerOS(os) ==
    IF os = "linux" THEN <<"amd64", "arm64">> ELSE <<"amd64">>

\* release.ArchListFromString: the architectures to build for, or an error
ArchListFromString(str, oses) ==
    CASE str = "*" ->
            [set |-> UNION {{ArchitecturesPerOS(oses[n])[m] :
                                m \in 1..Len(ArchitecturesPerOS(oses[n]))} : n \in 1..Len(oses)},
             err |-> Nil]
      [] str = "amd64" -> [set |-> {"amd64"}, err |-> Nil]
      [] OTHER -> [set |-> {}, err |-> Error("invalid --target-arch list", str)]

IsServerOS(os) == os = "linux"
IsClientOS(os) == os \in {"linux", "darwin"}

\* release.CmctlIsShipped: whether releases of this version carry the clients
CmctlIsShipped(version) == version # "v1.0.0"

\* sign.NewGCPKMSKey: the name of a key is parsed; nil when it is well formed
ValidKMSKey == "projects/p/locations/l/keyRings/r/cryptoKeys/k/cryptoKeyVersions/1"
NewGCPKMSKey(key) ==
    IF key = ValidKMSKey THEN Nil ELSE Error("NewGCPKMSKey", key)

\* release.BucketPathForRelease
BucketPathForRelease(buildType, version, ref) ==
    "stage/gcb/" \o buildType \o "/" \o version \o "-" \o ref

\* buildObjectName
buildObjectName(dir_, name) == dir_ \o "/" \o name

\* the content Bazel gives a release file, and that file once signed
BuiltBytes(name) == <<Len(name), 1>>
Signed(bytes) == Append(bytes, 83)

\* the pairs for which the loops over targetOSes.List() and
\* release.ArchitecturesPerOS[osVariant] reach the build, in order
RECURSIVE ArchPairs(_, _, _)
ArchPairs(os, arches, n) ==
    IF n > Len(ArchitecturesPerOS(os)) THEN <<>>
    ELSE (IF ArchitecturesPerOS(os)[n] \in arches
          THEN <<[os |-> os, arch |-> ArchitecturesPerOS(os)[n]]>> ELSE <<>>)
         \o ArchPairs(os, arches, n + 1)

RECURSIVE TargetPairs(_, _, _)
TargetPairs(oses, arches, n) ==
    IF n > Len(oses) THEN <<>>
    ELSE ArchPairs(oses[n], arches, 1) \o TargetPairs(oses, arches, n + 1)

\* the artifacts appended after the build for osVariant and arch, in order
ArtifactNames(osVariant, arch, version) ==
    (IF IsServerOS(osVariant)
     THEN <<"cert-manager-server-linux-" \o arch \o ".tar.gz">> ELSE <<>>)
    \o (IF IsClientOS(osVariant) /\ CmctlIsShipped(version)
        THEN <<"cert-manager-kubectl-cert_manager-" \o osVariant \o "-" \o arch \o ".tar.gz",
               "cert-manager-cmctl-" \o osVariant \o "-" \o arch \o ".tar.gz">>
        ELSE <<>>)

ManifestsName == "cert-manager-manifests.tar.gz"
MetadataFileName == "metadata.json"

\* release.ArtifactMetadata
ArtifactMetadata(name, sha, os, arch) ==
    [Name |-> name, SHA256 |-> sha, OS |-> os, Architecture |-> arch]

\* release.Metadata
Metadata(version, ref, list) ==
    [ReleaseVersion |-> version, GitCommitRef |-> ref, Artifacts |-> list]

\* the options the stage command is run with
StageOptions ==
    [SkipPush : BOOLEAN, SkipSigning : BOOLEAN,
     SigningKMSKey : {"", ValidKMSKey, "my-key"},
     ReleaseVersion : {"", "v1.8.0"},
     TargetOSes : {"*", "linux", "plan9"},
     TargetArches : {"*", "amd64", "mips"}]

StageInit ==
    /\ release = Staged("", "", "", <<>>)
    /\ cancelled = FALSE
    /\ dirs = EmptyMap /\ files = EmptyMap
    /\ pc = "stage"
    /\ Idle
    /\ findRoot = "" /\ findTree = {} /\ findExt = "" /\ findFailAt = 0
    /\ findResult = Nil
    /\ o \in StageOptions
    /\ stagePc = "readGitRef"
    /\ gitRef = "" /\ releaseVersion = "" /\ outputDir = ""
    /\ targets = <<>> /\ ti = 0 /\ names = <<>> /\ ni = 0
    /\ artifacts = <<>> /\ meta = Nil
    /\ bazelBin = EmptyMap /\ gcs = Nil /\ bucket = EmptyMap /\ ui = 0
    /\ stageErr = Nil /\ stageLog = <<>>

(***************************************************************************)
(* runGCBStage, one action per fallible call.                              *)
(***************************************************************************)
StageLogged(op, name, ok) == Append(stageLog, [op |-> op, name |-> name, ok |-> ok])

\* return err from runGCBStage (nil: success)
StageReturn(err) ==
    /\ stagePc' = "done"
    /\ stageErr' = err

\* gitRef, err := readGitRef(o.RepoPath)
ReadGitRef ==
    /\ stagePc = "readGitRef"
    /\ \E ok \in BOOLEAN :
          /\ stageLog' = StageLogged("readGitRef", "", ok)
          /\ IF ok
             THEN gitRef' = "4c0cd8f" /\ stagePc' = "NewGCPKMSKey" /\ stageErr' = stageErr
             ELSE /\ StageReturn(Error("failed to read git ref from repository", ""))
                  /\ gitRef' = gitRef
    /\ UNCHANGED <<unpackerVars, o, releaseVersion, outputDir, targets, ti, names, ni,
                   artifacts, meta, bazelBin, gcs, bucket, ui>>

\* if o.SigningKMSKey != "" { sign.NewGCPKMSKey(o.SigningKMSKey) }
CheckSigningKey ==
    /\ stagePc = "NewGCPKMSKey"
    /\ IF o.SigningKMSKey = ""
       THEN stagePc' = "tag" /\ UNCHANGED <<stageErr, stageLog>>
       ELSE LET err == NewGCPKMSKey(o.SigningKMSKey)
            IN  /\ stageLog' = StageLogged("NewGCPKMSKey", o.SigningKMSKey, err = Nil)
                /\ IF err # Nil THEN StageReturn(err)
                   ELSE stagePc' = "tag" /\ stageErr' = stageErr
    /\ UNCHANGED <<unpackerVars, o, gitRef, releaseVersion, outputDir, targets, ti, names, ni,
                   artifacts, meta, bazelBin, gcs, bucket, ui>>

\* if o.ReleaseVersion != "" { runGit(o.RepoPath, "tag", "-f", o.ReleaseVersion) }
GitTag ==
    /\ stagePc = "tag"
    /\ IF o.ReleaseVersion = ""
       THEN stagePc' = "readBazelVersion" /\ UNCHANGED <<stageErr, stageLog>>
       ELSE \E ok \in BOOLEAN :
              /\ stageLog' = StageLogged("runGit", o.ReleaseVersion, ok)
              /\ IF ok THEN stagePc' = "readBazelVersion" /\ stageErr' = stageErr
                 ELSE StageReturn(Error("runGit", ""))
    /\ UNCHANGED <<unpackerVars, o, gitRef, releaseVersion, outputDir, targets, ti, names, ni,
                   artifacts, meta, bazelBin, gcs, bucket, ui>>

\* the versions Bazel reports for a repository that carries no forced tag
BazelVersions == {"v1.0.0", "v1.8.0"}

\* releaseVersion, err := readBazelVersion(o.RepoPath), and outputDir
ReadBazelVersion ==
    /\ stagePc = "readBazelVersion"
    /\ \E version \in (IF o.ReleaseVersion = "" THEN BazelVersions ELSE {o.ReleaseVersion}) :
       \E ok \in BOOLEAN :
          /\ stageLog' = StageLogged("readBazelVersion", "", ok)
          /\ IF ok
             THEN /\ releaseVersion' = version
                  /\ outputDir' = BucketPathForRelease(
                                      IF o.ReleaseVersion = "" THEN "devel" ELSE "release",
                                      version, gitRef)
                  /\ stagePc' = "targets"
                  /\ stageErr' = stageErr
             ELSE /\ StageReturn(Error("readBazelVersion", ""))
                  /\ UNCHANGED <<releaseVersion, outputDir>>
    /\ UNCHANGED <<unpackerVars, o, gitRef, targets, ti, names, ni,
                   artifacts, meta, bazelBin, gcs, bucket, ui>>

\* targetOSes and targetArches, and the start of the build loops
ParseTargets ==
    /\ stagePc = "targets"
    /\ LET targetOSes == OSListFromString(o.TargetOSes)
           targetArches == ArchListFromString(o.TargetArches, targetOSes.list)
       IN  IF targetOSes.err # Nil
           THEN /\ StageReturn(targetOSes.err)
                /\ stageLog' = StageLogged("OSListFromString", o.TargetOSes, FALSE)
                /\ UNCHANGED <<targets, ti>>
           ELSE IF targetArches.err # Nil
           THEN /\ StageReturn(targetArches.err)
                /\ stageLog' = StageLogged("ArchListFromString", o.TargetArches, FALSE)
                /\ UNCHANGED <<targets, ti>>
           ELSE /\ targets' = TargetPairs(targetOSes.list, targetArches.set, 1)
                /\ ti' = 1
                /\ stagePc' = "build"
                /\ stageLog' = StageLogged("ArchListFromString", o.TargetArches, TRUE)
                /\ stageErr' = stageErr
    /\ UNCHANGED <<unpackerVars, o, gitRef, releaseVersion, outputDir, names, ni,
                   artifacts, meta, bazelBin, gcs, bucket, ui>>

\* a build that failed is passed over and the loops go on
BuildContinue ==
    /\ stagePc = "build"
    /\ IF ti > Len(targets)
       THEN /\ stagePc' = "postprocess"
            /\ UNCHANGED <<ti, names, ni, bazelBin, stageErr, stageLog>>
       ELSE \E ok \in BOOLEAN :
              LET t == targets[ti]
                  built == ArtifactNames(t.os, t.arch, releaseVersion)
                  written == {built[n] : n \in 1..Len(built)} \cup {ManifestsName}
              IN  /\ stageLog' = StageLogged("runBazel", t.os \o "_" \o t.arch, ok)
                  /\ stageErr' = stageErr
                  /\ IF ok
                     THEN /\ bazelBin' = [x \in DOMAIN bazelBin \cup written |->
                                            IF x \in written THEN BuiltBytes(x) ELSE bazelBin[x]]
                          /\ names' = built
                          /\ ni' = 1
                          /\ IF built = <<>>
                             THEN ti' = ti + 1 /\ stagePc' = stagePc
                             ELSE ti' = ti /\ stagePc' = "postprocess"
                     ELSE /\ ti' = ti + 1
                          /\ stagePc' = stagePc
                          /\ UNCHANGED <<names, ni, bazelBin>>
    /\ UNCHANGED <<unpackerVars, o, gitRef, releaseVersion, outputDir, targets,
                   artifacts, meta, gcs, bucket, ui>>

\* runBazel for the next pair of the loops; when it succeeds the release
\* files of the pair and the manifests archive are under bazel-bin
Build ==
    /\ stagePc = "build"
    /\ IF ti > Len(targets)
       THEN /\ stagePc' = "postprocess"
            /\ UNCHANGED <<ti, names, ni, bazelBin, stageErr, stageLog>>
       ELSE \E ok \in BOOLEAN :
              LET t == targets[ti]
                  built == ArtifactNames(t.os, t.arch, releaseVersion)
                  written == {built[n] : n \in 1..Len(built)} \cup {ManifestsName}
              IN  /\ stageLog' = StageLogged("runBazel", t.os \o "_" \o t.arch, ok)
                  /\ IF ok
                     THEN /\ bazelBin' = [x \in DOMAIN bazelBin \cup written |->
                                            IF x \in written THEN BuiltBytes(x) ELSE bazelBin[x]]
                          /\ names' = built
                          /\ ni' = 1
                          /\ IF built = <<>>
                             THEN ti' = ti + 1 /\ stagePc' = stagePc
                             ELSE ti' = ti /\ stagePc' = "postprocess"
                          /\ stageErr' = stageErr
                     ELSE /\ StageReturn(Error(
                                 "failed building release artifacts for architecture", t.arch))
                          /\ UNCHANGED <<ti, names, ni, bazelBin>>
    /\ UNCHANGED <<unpackerVars, o, gitRef, releaseVersion, outputDir, targets,
                   artifacts, meta, gcs, bucket, ui>>

\* the arguments of the call of appendArtifactWithPostprocess under way: an
\* artifact of the pair just built (no postprocess), or, after the loops,
\* the manifests archive with manifestPostProcessor
CurrentCall ==
    IF ti <= Len(targets)
    THEN [name |-> names[ni], os |-> targets[ti].os, arch |-> targets[ti].arch,
          postprocess |-> FALSE]
    ELSE [name |-> ManifestsName, os |-> "", arch |-> "", postprocess |-> TRUE]

\* appendArtifactWithPostprocess: if postprocess != nil { postprocess(artifactPath) },
\* with manifestPostProcessor, which signs the file in place
Postprocess ==
    /\ stagePc = "postprocess"
    /\ LET c == CurrentCall
       IN  IF ~c.postprocess
           THEN stagePc' = "sha256SumFile" /\ UNCHANGED <<bazelBin, stageErr, stageLog>>
           ELSE IF o.SkipSigning
           THEN /\ stageLog' = StageLogged("postprocess", c.name, TRUE)
                /\ stagePc' = "sha256SumFile"
                /\ UNCHANGED <<bazelBin, stageErr>>
           ELSE \E ok \in BOOLEAN :
                  LET signed == /\ ok
                                /\ NewGCPKMSKey(o.SigningKMSKey) = Nil
                                /\ c.name \in DOMAIN bazelBin
                  IN  /\ stageLog' = StageLogged("postprocess", c.name, signed)
                      /\ IF signed
                         THEN /\ bazelBin' = [bazelBin EXCEPT ![c.name] = Signed(@)]
                              /\ stagePc' = "sha256SumFile"
                              /\ stageErr' = stageErr
                         ELSE /\ StageReturn(Error("failed to postprocess", c.name))
                              /\ bazelBin' = bazelBin
    /\ UNCHANGED <<unpackerVars, o, gitRef, releaseVersion, outputDir, targets, ti, names, ni,
                   artifacts, meta, gcs, bucket, ui>>

\* the digest recorded is that of the file as it was built, before the
\* postprocess
AppendArtifactHashFirst ==
    /\ stagePc = "sha256SumFile"
    /\ LET c == CurrentCall
       IN  \E ok \in BOOLEAN :
              LET hashed == ok /\ c.name \in DOMAIN bazelBin
              IN  /\ stageLog' = StageLogged("sha256SumFile", c.name, hashed)
                  /\ IF hashed
                     THEN /\ artifacts' = Append(artifacts,
                                 ArtifactMetadata(c.name, Sha256Sum(BuiltBytes(c.name)),
                                                  c.os, c.arch))
                          /\ stageErr' = stageErr
                          /\ IF ti > Len(targets)
                             THEN stagePc' = "MarshalIndent" /\ UNCHANGED <<ti, ni>>
                             ELSE IF ni < Len(names)
                             THEN stagePc' = "postprocess" /\ ni' = ni + 1 /\ ti' = ti
                             ELSE stagePc' = "build" /\ ti' = ti + 1 /\ ni' = ni
                     ELSE /\ StageReturn(Error(
                                 "failed to compute sha256sum of release artifact", c.name))
                          /\ UNCHANGED <<artifacts, ti, ni>>
    /\ UNCHANGED <<unpackerVars, o, gitRef, releaseVersion, outputDir, targets, names,
                   meta, bazelBin, gcs, bucket, ui>>

\* appendArtifactWithPostprocess: artifactHash, err := sha256SumFile(artifactPath)
\* and the append, then the next statement of runGCBStage
AppendArtifact ==
    /\ stagePc = "sha256SumFile"
    /\ LET c == CurrentCall
       IN  \E ok \in BOOLEAN :
              LET hashed == ok /\ c.name \in DOMAIN bazelBin
              IN  /\ stageLog' = StageLogged("sha256SumFile", c.name, hashed)
                  /\ IF hashed
                     THEN /\ artifacts' = Append(artifacts,
                                 ArtifactMetadata(c.name, Sha256Sum(bazelBin[c.name]),
                                                  c.os, c.arch))
                          /\ stageErr' = stageErr
                          /\ IF ti > Len(targets)
                             THEN stagePc' = "MarshalIndent" /\ UNCHANGED <<ti, ni>>
                             ELSE IF ni < Len(names)
                             THEN stagePc' = "postprocess" /\ ni' = ni + 1 /\ ti' = ti
                             ELSE stagePc' = "build" /\ ti' = ti + 1 /\ ni' = ni
                     ELSE /\ StageReturn(Error(
                                 "failed to compute sha256sum of release artifact", c.name))
                          /\ UNCHANGED <<artifacts, ti, ni>>
    /\ UNCHANGED <<unpackerVars, o, gitRef, releaseVersion, outputDir, targets, names,
                   meta, bazelBin, gcs, bucket, ui>>

\* the test of o.SkipPush is missing
MarshalIndentPush ==
    /\ stagePc = "MarshalIndent"
    /\ meta' = Metadata(o.ReleaseVersion, gitRef, artifacts)
    /\ stagePc' = "NewClient"
    /\ stageErr' = stageErr
    /\ UNCHANGED <<unpackerVars, o, gitRef, releaseVersion, outputDir, targets, ti, names, ni,
                   artifacts, bazelBin, gcs, bucket, ui, stageLog>>

\* meta, err := json.MarshalIndent(release.Metadata{...}) (a struct of
\* strings: the encoding cannot fail), and: if o.SkipPush { return nil }
MarshalIndent ==
    /\ stagePc = "MarshalIndent"
    /\ meta' = Metadata(o.ReleaseVersion, gitRef, artifacts)
    /\ IF o.SkipPush THEN StageReturn(Nil)
       ELSE stagePc' = "NewClient" /\ stageErr' = stageErr
    /\ UNCHANGED <<unpackerVars, o, gitRef, releaseVersion, outputDir, targets, ti, names, ni,
                   artifacts, bazelBin, gcs, bucket, ui, stageLog>>

\* gcs, err := storage.NewClient(ctx)
NewClient ==
    /\ stagePc = "NewClient"
    /\ \E ok \in BOOLEAN :
          /\ stageLog' = StageLogged("NewClient", "", ok)
          /\ IF ok
             THEN /\ gcs' = [bucket |-> "cert-manager-release"]
                  /\ ui' = 1
                  /\ stagePc' = "upload"
                  /\ stageErr' = stageErr
             ELSE /\ StageReturn(Error("failed to create GCS client", ""))
                  /\ UNCHANGED <<gcs, ui>>
    /\ UNCHANGED <<unpackerVars, o, gitRef, releaseVersion, outputDir, targets, ti, names, ni,
                   artifacts, meta, bazelBin, bucket>>

\* an object written through a storage writer exists once Close has
\* succeeded; when Close fails it may or may not have been stored
Stored(outcome) == IF outcome = "Close" THEN BOOLEAN ELSE {outcome = "ok"}

\* bucket with the object name holding bytes
PutObject(name, bytes) ==
    [x \in DOMAIN bucket \cup {name} |-> IF x = name THEN bytes ELSE bucket[x]]

\* an upload that failed is passed over and the loop goes on
UploadContinue ==
    /\ stagePc = "upload"
    /\ IF ui > Len(artifacts)
       THEN /\ stagePc' = "metadata"
            /\ UNCHANGED <<bucket, ui, stageErr, stageLog>>
       ELSE LET name == artifacts[ui].Name
                gcsPath == buildObjectName(outputDir, name)
            IN  \E outcome \in {"ok", "Open", "Copy", "Close"} :
                \E stored \in Stored(outcome) :
                   /\ outcome = "ok" => name \in DOMAIN bazelBin
                   /\ stageLog' = StageLogged("upload", name, outcome = "ok")
                   /\ bucket' = IF stored /\ name \in DOMAIN bazelBin
                                THEN PutObject(gcsPath, bazelBin[name]) ELSE bucket
                   /\ ui' = ui + 1 /\ stagePc' = stagePc /\ stageErr' = stageErr
    /\ UNCHANGED <<unpackerVars, o, gitRef, releaseVersion, outputDir, targets, ti, names, ni,
                   artifacts, meta, bazelBin, gcs>>

\* one iteration of: for _, artifact := range artifacts (os.Open, io.Copy to
\* the writer, w.Close), or the end of the loop
Upload ==
    /\ stagePc = "upload"
    /\ IF ui > Len(artifacts)
       THEN /\ stagePc' = "metadata"
            /\ UNCHANGED <<bucket, ui, stageErr, stageLog>>
       ELSE LET name == artifacts[ui].Name
                gcsPath == buildObjectName(outputDir, name)
            IN  \E outcome \in {"ok", "Open", "Copy", "Close"} :
                \E stored \in Stored(outcome) :
                   /\ outcome = "ok" => name \in DOMAIN bazelBin
                   /\ stageLog' = StageLogged("upload", name, outcome = "ok")
                   /\ bucket' = IF stored /\ name \in DOMAIN bazelBin
                                THEN PutObject(gcsPath, bazelBin[name]) ELSE bucket
                   /\ IF outcome = "ok"
                      THEN ui' = ui + 1 /\ stagePc' = stagePc /\ stageErr' = stageErr
                      ELSE /\ StageReturn(Error(
                                  "failed to copy output artifact to GCS staging location", ""))
                           /\ ui' = ui
    /\ UNCHANGED <<unpackerVars, o, gitRef, releaseVersion, outputDir, targets, ti, names, ni,
                   artifacts, meta, bazelBin, gcs>>

\* the release metadata object: NewWriter, w.Write(meta), w.Close()
UploadMetadata ==
    /\ stagePc = "metadata"
    /\ \E outcome \in {"ok", "Write", "Close"} :
       \E stored \in Stored(outcome) :
          /\ stageLog' = StageLogged("metadata", MetadataFileName, outcome = "ok")
          /\ bucket' = IF stored
                       THEN PutObject(buildObjectName(outputDir, MetadataFileName), meta)
                       ELSE bucket
          /\ StageReturn(
                CASE outcome = "ok" -> Nil
                  [] outcome = "Write" ->
                        Error("failed to write release metadata to GCS staging location", "")
                  [] outcome = "Close" -> Error("Close", ""))
    /\ UNCHANGED <<unpackerVars, o, gitRef, releaseVersion, outputDir, targets, ti, names, ni,
                   artifacts, meta, bazelBin, gcs, ui>>

StageNext ==
    \/ ReadGitRef
    \/ CheckSigningKey
    \/ GitTag
    \/ ReadBazelVersion
    \/ ParseTargets
    \/ Build
    \/ Postprocess
    \/ AppendArtifact
    \/ MarshalIndent
    \/ NewClient
    \/ Upload
    \/ UploadMetadata

StageSpec == StageInit /\ [][StageNext]_vars

TypeOK ==
    /\ pc \in {"Unpack", "TempDir", "TempFile", "NewReader", "Copy", "Sync", "Seek",
               "Verify", "UntarGz", "FindTgz", "NewChart", "FindYaml",
               "unpackServerImagesFromRelease", "range", "FindTar", "NewTar", "done",
               "find", "found", "stage"}
    /\ Len(release.artifacts) <= MaxArtifacts
    /\ stagePc \in {"", "readGitRef", "NewGCPKMSKey", "tag", "readBazelVersion", "targets",
                    "build", "postprocess", "sha256SumFile", "MarshalIndent", "NewClient",
                    "upload", "metadata", "done"}
    /\ ti <= Len(targets) + 1
    /\ ui <= Len(artifacts) + 1

(***************************************************************************)
(* What the properties below speak of.                                     *)
(***************************************************************************)
LogIdx == 1..Len(log)

\* the artifact at a position of the release's artifact list
Art(pos) == release.artifacts[pos]

\* the positions of the artifacts of a kind
PosOfKind(kind) == {p \in 1..Len(release.artifacts) : Art(p).Kind = kind}

\* the calls of an operation logged for the artifact at pos
Calls(op, pos) == {k \in LogIdx : log[k].op = op /\ log[k].pos = pos}

\* name ends in ext
HasSuffix(name, ext) ==
    /\ Len(name) >= Len(ext)
    /\ SubSeq(name, Len(name) - Len(ext) + 1, Len(name)) = ext

\* the files (not directories) of an archive whose name ends in ext
ArchiveFiles(bytes, ext) ==
    {k \in 1..Len(bytes) :
        ~EntryTable[bytes[k]].isDir /\ HasSuffix(EntryTable[bytes[k]].name, ext)}

Returned == pc = "done"
Succeeded == Returned /\ ret.err = Nil
Failed == ret.err # Nil

(***************************************************************************)
(* C1: the extractor runs on an artifact's local copy only after the       *)
(* digest of the completely downloaded file was computed and found equal   *)
(* to the artifact's declared sha256; when the digests differ, the error   *)
(* returned names the artifact and the extractor is not run for it.        *)
(***************************************************************************)
C1_VerifiedBeforeExtract ==
    /\ \A k \in LogIdx :
          log[k].op = "UntarGz" =>
              \E m \in 1..(k - 1) :
                  /\ log[m].op = "Verify"
                  /\ log[m].pos = log[k].pos
                  /\ log[m].arg = Art(log[k].pos).Metadata.SHA256
                  /\ log[m].arg = Sha256Sum(Art(log[k].pos).Object)
    /\ \A m \in LogIdx :
          (log[m].op = "Verify" /\ log[m].arg # Art(log[m].pos).Metadata.SHA256) =>
              /\ Returned
              /\ ret.unpacked = Nil
              /\ ret.err = Error("mismatching checksum", Art(log[m].pos).Metadata.Name)
              /\ Calls("UntarGz", log[m].pos) = {}

\* one artifact has been extracted and a later one was refused on its digest
C1_Witness ==
    /\ \E k \in LogIdx : log[k].op = "UntarGz"
    /\ \E m \in LogIdx :
          log[m].op = "Verify" /\ log[m].arg # Art(log[m].pos).Metadata.SHA256
    /\ Returned

(***************************************************************************)
(* C2: Unpack returns either an Unpacked and no error, built from the      *)
(* manifests artifact and every server artifact of the release, or no      *)
(* Unpacked and an error; never both, and never an Unpacked that lacks     *)
(* the contents of a selected artifact.                                    *)
(***************************************************************************)
\* the number of image descriptors in a bundle map
RECURSIVE BundleSize(_, _)
BundleSize(bundles, keys) ==
    IF keys = {} THEN 0
    ELSE LET c == CHOOSE x \in keys : TRUE
         IN  Len(bundles[c]) + BundleSize(bundles, keys \ {c})

RECURSIVE ImageCount(_)
ImageCount(positions) ==
    IF positions = {} THEN 0
    ELSE LET p == CHOOSE x \in positions : TRUE
         IN  Cardinality(ArchiveFiles(Art(p).Object, ".tar")) + ImageCount(positions \ {p})

C2_AllOrNothing ==
    /\ ~Returned => ret = [unpacked |-> Nil, err |-> Nil]
    /\ Returned =>
          \/ ret.unpacked = Nil /\ ret.err # Nil
          \/ /\ ret.unpacked # Nil /\ ret.err = Nil
             /\ \A p \in PosOfKind("manifests") \cup PosOfKind("server") :
                   \E k \in Calls("UntarGz", p) :
                       dirs[log[k].arg] = {EntryTable[b] : b \in
                                            {Art(p).Object[n] : n \in 1..Len(Art(p).Object)}}
             /\ \A p \in PosOfKind("manifests") :
                   /\ Len(ret.unpacked.Charts) = Cardinality(ArchiveFiles(Art(p).Object, ".tgz"))
                   /\ Len(ret.unpacked.YAMLs) = Cardinality(ArchiveFiles(Art(p).Object, ".yaml"))
             /\ BundleSize(ret.unpacked.ComponentImageBundles,
                           DOMAIN ret.unpacked.ComponentImageBundles)
                    = ImageCount(PosOfKind("server"))

\* Unpack failed after charts, manifests and image bundles had been built
C2_Witness ==
    /\ Returned
    /\ Failed
    /\ charts # <<>>
    /\ yamls # <<>>
    /\ tarBundles # EmptyMap

(***************************************************************************)
(* C3: once a step has failed nothing further is done: Unpack has          *)
(* returned and no call is made afterwards; no call was made for a server  *)
(* artifact after the one that failed, and none for any server artifact    *)
(* when the failure was in the manifests phase.                            *)
(***************************************************************************)
\* the server artifacts declared after the one being processed
LaterServers ==
    IF caller = "unpackServerImagesFromRelease"
    THEN {p \in PosOfKind("server") : p > a.pos}
    ELSE PosOfKind("server")

C3_FailFastState ==
    Failed =>
        /\ Returned
        /\ ret.unpacked = Nil
        /\ \A k \in LogIdx : log[k].pos \notin LaterServers
        /\ log # <<>> => log[Len(log)].pos = a.pos

C3_FailFast ==
    /\ []C3_FailFastState
    /\ [][Failed => (Failed' /\ log' = log /\ dirs' = dirs /\ files' = files)]_vars

\* the first of two server artifacts failed after it had been extracted
C3_Witness ==
    /\ Failed
    /\ caller = "unpackServerImagesFromRelease"
    /\ i = 1
    /\ Len(serverA) = 2
    /\ Calls("UntarGz", serverA[1].pos) # {}

(***************************************************************************)
(* C4: with no manifests artifact Unpack returns a not-found error naming  *)
(* the release, with several a multiple-found error naming the release,    *)
(* and in both cases nothing is downloaded or extracted; with exactly one, *)
(* that artifact is the one fetched.                                       *)
(***************************************************************************)
C4_ManifestsCardinality ==
    LET n == Cardinality(PosOfKind("manifests"))
    IN  pc # "Unpack" =>
          /\ n = 0 =>
                /\ Returned
                /\ ret = [unpacked |-> Nil,
                          err |-> Error("cannot find 'manifests' artifact", release.name)]
                /\ log = <<>>
          /\ n > 1 =>
                /\ Returned
                /\ ret = [unpacked |-> Nil,
                          err |-> Error("found multiple 'manifests' artifacts", release.name)]
                /\ log = <<>>
          /\ n = 1 =>
                /\ ret.err \notin
                      {Error("cannot find 'manifests' artifact", release.name),
                       Error("found multiple 'manifests' artifacts", release.name)}
                /\ log # <<>> => log[1].pos \in PosOfKind("manifests")
                /\ \A k \in LogIdx :
                      log[k].op = "NewReader" => Art(log[k].pos).Kind \in {"manifests", "server"}

\* a release with two manifests artifacts and a server artifact was refused
C4_Witness ==
    /\ Returned
    /\ Cardinality(PosOfKind("manifests")) = 2
    /\ PosOfKind("server") # {}
    /\ ret.err.ctx = release.name

(***************************************************************************)
(* C5: one artifact is in flight at a time and the steps are taken in the  *)
(* order of the state machine: the manifests artifact is fetched,          *)
(* verified, extracted and scanned for .tgz and then .yaml before any      *)
(* server artifact is fetched; the server artifacts follow in declaration  *)
(* order, each fetched, verified, extracted, scanned for .tar and          *)
(* classified, the next one only after the previous one is classified.     *)
(***************************************************************************)
\* the place of a call in the processing of one artifact
StepRank(e) ==
    CASE e.op = "TempDir" -> 1
      [] e.op = "TempFile" -> 2
      [] e.op = "NewReader" -> 3
      [] e.op = "Copy" -> 4
      [] e.op = "Sync" -> 5
      [] e.op = "Seek" -> 6
      [] e.op = "sha256SumFile" -> 7
      [] e.op = "Verify" -> 8
      [] e.op = "UntarGz" -> 9
      [] e.op = "Walk" -> (IF e.arg[2] = ".yaml" THEN 12 ELSE 10)
      [] e.op \in {"NewChart", "NewTar"} -> 11

\* the place of an artifact in the order of processing
ArtRank(pos) == IF Art(pos).Kind = "manifests" THEN 0 ELSE pos

\* everything the pipeline does for the artifact at pos has been done
Completed(pos) ==
    IF Art(pos).Kind = "manifests"
    THEN /\ \E k \in Calls("Walk", pos) : log[k].arg[2] = ".tgz"
         /\ \E k \in Calls("Walk", pos) : log[k].arg[2] = ".yaml"
         /\ Cardinality(Calls("NewChart", pos))
               = Cardinality(ArchiveFiles(Art(pos).Object, ".tgz"))
    ELSE /\ \E k \in Calls("Walk", pos) : log[k].arg[2] = ".tar"
         /\ Cardinality(Calls("NewTar", pos))
               = Cardinality(ArchiveFiles(Art(pos).Object, ".tar"))

C5_LinearOrder ==
    /\ \A k \in LogIdx :
          /\ Art(log[k].pos).Kind \in {"manifests", "server"}
          /\ log[k].op = "Walk" =>
                log[k].arg[2] \in (IF Art(log[k].pos).Kind = "manifests"
                                   THEN {".tgz", ".yaml"} ELSE {".tar"})
          /\ log[k].op = "NewChart" => Art(log[k].pos).Kind = "manifests"
          /\ log[k].op = "NewTar" => Art(log[k].pos).Kind = "server"
    /\ log # <<>> => log[1].op = "TempDir" /\ ArtRank(log[1].pos) = 0
    /\ \A k \in 1..(Len(log) - 1) :
          \/ /\ log[k].pos = log[k + 1].pos
             /\ \/ StepRank(log[k]) < StepRank(log[k + 1])
                \/ log[k].op = log[k + 1].op /\ log[k].op \in {"NewChart", "NewTar"}
          \/ /\ ArtRank(log[k].pos) < ArtRank(log[k + 1].pos)
             /\ log[k + 1].op = "TempDir"
             /\ Completed(log[k].pos)
             /\ \A p \in PosOfKind("server") :
                   (ArtRank(log[k].pos) < p /\ p < log[k + 1].pos) => Completed(p)

\* the manifests artifact is declared last and both server artifacts, declared
\* before it, have been classified after it
C5_Witness ==
    /\ Succeeded
    /\ Len(release.artifacts) = 3
    /\ Art(3).Kind = "manifests"
    /\ Calls("NewTar", 1) # {}
    /\ Calls("NewTar", 2) # {}

(***************************************************************************)
(* C6: after a successful Unpack the descriptors of every component key    *)
(* are the .tar files with that stem, by server artifact in declaration    *)
(* order and then in discovery order within the artifact, each with the    *)
(* OS and architecture of the artifact it was found in; none is dropped,   *)
(* duplicated or overwritten.                                              *)
(***************************************************************************)
\* the directory the artifact at pos was extracted to
ExtractedTo(pos) == log[CHOOSE k \in Calls("UntarGz", pos) : TRUE].arg

\* the .tar files found in the artifact at pos, in discovery order
Discovered(pos) ==
    recursiveFindWithExt(dirs[ExtractedTo(pos)], ExtractedTo(pos), ".tar", 0).paths

\* st is the last element of path without what follows its last dot
IsStem(st, path) ==
    \E e \in 0..(Len(path) - Len(st)) :
        LET hi == Len(path) - e
            lo == hi - Len(st) + 1
        IN  /\ e = 0 \/ CharAt(path, hi + 1) = "."
            /\ lo = 1 \/ CharAt(path, lo - 1) = "/"
            /\ SubSeq(path, lo, hi) = st
            /\ \A n \in lo..Len(path) : CharAt(path, n) # "/"
            /\ \A n \in (hi + 2)..Len(path) : CharAt(path, n) # "."
            /\ e = 0 => \A n \in lo..hi : CharAt(path, n) # "."

\* the (path, os, arch) of the .tar files with stem c in the server
\* artifacts at the positions from pos on
RECURSIVE ExpectedFrom(_, _)
ExpectedFrom(c, pos) ==
    IF pos > Len(release.artifacts) THEN <<>>
    ELSE IF Art(pos).Kind # "server" THEN ExpectedFrom(c, pos + 1)
    ELSE LET found == SelectSeq(Discovered(pos), LAMBDA path : IsStem(c, path))
         IN  [n \in 1..Len(found) |->
                 [path |-> found[n], os |-> Art(pos).Metadata.OS,
                  arch |-> Art(pos).Metadata.Architecture]]
             \o ExpectedFrom(c, pos + 1)

C6_Accumulation ==
    Succeeded =>
        LET B == ret.unpacked.ComponentImageBundles
        IN  /\ \A p \in PosOfKind("server") : \A n \in 1..Len(Discovered(p)) :
                  \E c \in DOMAIN B : IsStem(c, Discovered(p)[n])
            /\ \A c \in DOMAIN B :
                  /\ B[c] # <<>>
                  /\ [n \in 1..Len(B[c]) |->
                      [path |-> B[c][n].path, os |-> B[c][n].os, arch |-> B[c][n].arch]]
                    = ExpectedFrom(c, 1)

\* a component with images of two architectures, the amd64 one found first
C6_Witness ==
    /\ Succeeded
    /\ "cainjector" \in DOMAIN ret.unpacked.ComponentImageBundles
    /\ LET b == ret.unpacked.ComponentImageBundles["cainjector"]
       IN  /\ Len(b) = 3
           /\ b[1].arch = "amd64" /\ b[2].arch = "amd64" /\ b[3].arch = "arm64"
           /\ b[1].path # b[3].path
           /\ Base(b[1].path) = Base(b[3].path)

(***************************************************************************)
(* C7: the component key of an image archive is its base name without the  *)
(* final extension, whatever its directory, OS, architecture, image name   *)
(* or content: files with the same stem get the same key.                  *)
(***************************************************************************)
C7_ComponentKey ==
    /\ \A c \in DOMAIN tarBundles :
          \A n \in 1..Len(tarBundles[c]) : IsStem(c, tarBundles[c][n].path)
    /\ \A k \in LogIdx :
          (log[k].op = "NewTar" /\ (k < Len(log) \/ ~Failed)) =>
              \E c \in DOMAIN tarBundles :
                  /\ IsStem(c, log[k].arg)
                  /\ \E n \in 1..Len(tarBundles[c]) : tarBundles[c][n].path = log[k].arg

\* one key holds files of different directories, architectures and image
\* names, and a name with two dots lost only its last extension
C7_Witness ==
    /\ "cainjector" \in DOMAIN tarBundles
    /\ "cainjector-amd64" \in DOMAIN tarBundles
    /\ "webhook.v1" \in DOMAIN tarBundles
    /\ \E n \in 1..Len(tarBundles["cainjector"]) :
       \E m \in 1..Len(tarBundles["cainjector"]) :
          /\ tarBundles["cainjector"][n].imageName # tarBundles["cainjector"][m].imageName
          /\ tarBundles["cainjector"][n].arch # tarBundles["cainjector"][m].arch
          /\ HasSuffix(tarBundles["cainjector"][n].path, "/img/cainjector.tar")

(***************************************************************************)
(* C8: recursiveFindWithExt returns the files, at any depth under the      *)
(* root, whose extension is exactly ext (directories never, a different    *)
(* case never), each once, in the order of the lexical traversal; nothing  *)
(* and no error when no file matches; an error and no paths when the       *)
(* traversal fails.                                                        *)
(***************************************************************************)
\* the extension of name is ext, character for character
HasExt(name, ext) ==
    IF ext = "" THEN \A n \in 1..Len(name) : CharAt(name, n) # "."
    ELSE /\ CharAt(ext, 1) = "."
         /\ \A n \in 2..Len(ext) : CharAt(ext, n) # "."
         /\ HasSuffix(name, ext)

\* the element of path that begins after its first k characters
ElementAfter(path, k) ==
    SubSeq(path, k + 1,
           CHOOSE e \in k..Len(path) :
               /\ e = Len(path) \/ CharAt(path, e + 1) = "/"
               /\ \A n \in (k + 1)..e : CharAt(path, n) # "/")

\* below their common directory, p continues with a smaller name than q
WalkedBefore(p, q) ==
    \E k \in 0..Len(p) :
        /\ k <= Len(q)
        /\ SubSeq(p, 1, k) = SubSeq(q, 1, k)
        /\ k = 0 \/ CharAt(p, k) = "/"
        /\ ElementAfter(p, k) # ElementAfter(q, k)
        /\ StrLess(ElementAfter(p, k), ElementAfter(q, k))

C8_FindWithExt ==
    pc = "found" =>
        LET paths == findResult.paths
            matching == {Join(findRoot, Join(n.dir, n.name)) :
                            n \in {m \in findTree : ~m.isDir /\ HasExt(m.name, findExt)}}
        IN  IF findFailAt # 0
            THEN findResult.err # Nil /\ paths = <<>>
            ELSE /\ findResult.err = Nil
                 /\ {paths[n] : n \in 1..Len(paths)} = matching
                 /\ Len(paths) = Cardinality(matching)
                 /\ \A k \in 1..Len(paths) : \A m \in 1..Len(paths) :
                       k < m => WalkedBefore(paths[k], paths[m])

\* the tree a.yaml, b.YAML, c/d.yaml scanned for .yaml
C8_Witness ==
    /\ pc = "found"
    /\ findExt = ".yaml"
    /\ {n.name : n \in findTree} = {"a.yaml", "b.YAML", "c", "d.yaml"}
    /\ findResult = [paths |-> <<Join(findRoot, "a.yaml"), Join(findRoot, "c/d.yaml")>>,
                     err |-> Nil]

(***************************************************************************)
(* C9: after a successful Unpack, Charts holds one entry per .tgz file and *)
(* YAMLs one entry per .yaml file of the manifests artifact's tree, in     *)
(* discovery order; files of server artifacts are in neither, .tar files   *)
(* of the manifests artifact are in no image bundle; ReleaseVersion and    *)
(* GitCommitRef are those of the release.                                  *)
(***************************************************************************)
\* the paths, under root, of an archive's files whose name ends in ext
ArchivePaths(root, bytes, ext) ==
    {Join(root, Join(EntryTable[bytes[k]].dir, EntryTable[bytes[k]].name)) :
        k \in ArchiveFiles(bytes, ext)}

Paths(seq) == {seq[n].path : n \in 1..Len(seq)}

C9_ManifestsResult ==
    Succeeded =>
        LET u == ret.unpacked
            mp == CHOOSE p \in PosOfKind("manifests") : TRUE
            md == ExtractedTo(mp)
        IN  /\ Paths(u.Charts) = ArchivePaths(md, Art(mp).Object, ".tgz")
            /\ Len(u.Charts) = Cardinality(Paths(u.Charts))
            /\ [n \in 1..Len(u.Charts) |-> u.Charts[n].path]
                  = recursiveFindWithExt(dirs[md], md, ".tgz", 0).paths
            /\ Paths(u.YAMLs) = ArchivePaths(md, Art(mp).Object, ".yaml")
            /\ Len(u.YAMLs) = Cardinality(Paths(u.YAMLs))
            /\ [n \in 1..Len(u.YAMLs) |-> u.YAMLs[n].path]
                  = recursiveFindWithExt(dirs[md], md, ".yaml", 0).paths
            /\ \A c \in DOMAIN u.ComponentImageBundles :
                  \A n \in 1..Len(u.ComponentImageBundles[c]) :
                      \E p \in PosOfKind("server") :
                          u.ComponentImageBundles[c][n].path
                              \in ArchivePaths(ExtractedTo(p), Art(p).Object, ".tar")
            /\ u.ReleaseVersion = release.metadata.ReleaseVersion
            /\ u.GitCommitRef = release.metadata.GitCommitRef

\* the manifests artifact held a .tar file and a server artifact held .tgz
\* and .yaml files
C9_Witness ==
    /\ Succeeded
    /\ \E p \in PosOfKind("manifests") : ArchiveFiles(Art(p).Object, ".tar") # {}
    /\ \E p \in PosOfKind("server") :
          /\ ArchiveFiles(Art(p).Object, ".tgz") # {}
          /\ ArchiveFiles(Art(p).Object, ".yaml") # {}
    /\ Len(ret.unpacked.Charts) = 1
    /\ Len(ret.unpacked.YAMLs) = 3

(***************************************************************************)
(* C10: every artifact is extracted into a directory created for it alone, *)
(* so no directory receives two archives and a scan sees only the files of *)
(* the one archive extracted there; every download goes to a temporary     *)
(* file of its own.                                                        *)
(***************************************************************************)
\* the calls of op that created something
Created(op) == {k \in LogIdx : log[k].op = op /\ log[k].arg # ""}

C10_Isolation ==
    /\ \A k \in Created("TempDir") : \A m \in Created("TempDir") :
          log[k].arg = log[m].arg => k = m
    /\ \A k \in Created("TempFile") : \A m \in Created("TempFile") :
          log[k].arg = log[m].arg => k = m
    /\ \A k \in LogIdx :
          log[k].op = "UntarGz" =>
              /\ \E m \in Created("TempDir") :
                    m < k /\ log[m].arg = log[k].arg /\ log[m].pos = log[k].pos
              /\ \A m \in LogIdx :
                    (log[m].op = "UntarGz" /\ log[m].arg = log[k].arg) => m = k
    /\ \A k \in LogIdx :
          log[k].op = "Walk" =>
              dirs[log[k].arg[1]] \subseteq
                  {EntryTable[Art(log[k].pos).Object[n]] : n \in 1..Len(Art(log[k].pos).Object)}
    /\ \A k \in LogIdx :
          log[k].op = "Copy" =>
              /\ \E m \in Created("TempFile") :
                    m < k /\ log[m].arg = log[k].arg /\ log[m].pos = log[k].pos
              /\ \A m \in LogIdx :
                    (log[m].op = "Copy" /\ log[m].arg = log[k].arg) => m = k

\* three archives were extracted beside a directory left by an earlier run
C10_Witness ==
    /\ Cardinality({k \in LogIdx : log[k].op = "UntarGz"}) = 3
    /\ TempDirName(1) \in DOMAIN dirs
    /\ dirs[TempDirName(1)] = StaleTree
    /\ Cardinality(DOMAIN dirs) = 4
    /\ Cardinality(DOMAIN files) = 4


(***************************************************************************)
(* C11: cancellation is observed between artifacts: once ctx is done and   *)
(* an artifact has been classified, Unpack does not start on the next      *)
(* server artifact and returns an error, not a result.                     *)
(***************************************************************************)
C11_CancelObserved ==
    [][(cancelled /\ pc = "range") => (pc' = "done" /\ ret'.err # Nil)]_vars


(***************************************************************************)
(* C12: no failure of a step is swallowed, and every error Unpack returns  *)
(* for a failed step carries context added on the way up: the name of the  *)
(* artifact or the path of the file involved.                              *)
(***************************************************************************)
C12_ErrorsWrapped ==
    /\ (Returned /\ log # <<>> /\ ret.err = Nil) => ret.unpacked # Nil
    /\ (Failed /\ log # <<>>) =>
          /\ ret.err.ctx # ""
          /\ ret.err.ctx \in {Art(log[Len(log)].pos).Metadata.Name, dest, f}
                               \cup {imageArchives[n] : n \in 1..Len(imageArchives)}
                               \cup {chartPaths[n] : n \in 1..Len(chartPaths)}


(***************************************************************************)
(* C13: nothing is retried or downloaded again: the remote object of an    *)
(* artifact is opened at most once; a download that failed part-way or a   *)
(* digest that differs is the last thing Unpack did; the digest is that of *)
(* the local file the one download wrote, and the extraction reads that    *)
(* same file, complete, from its start.                                    *)
(***************************************************************************)
\* the archive entries held by a local file
FileEntries(name) == {EntryTable[files[name][n]] : n \in 1..Len(files[name])}

C13_NoRetry ==
    /\ \A k \in LogIdx :
          /\ log[k].op = "NewReader" =>
                \A m \in (k + 1)..Len(log) :
                    log[m].op = "NewReader" => log[m].pos # log[k].pos
          /\ (log[k].op = "Copy" /\ files[log[k].arg] # Art(log[k].pos).Object) =>
                k = Len(log) /\ Returned /\ Failed
          /\ log[k].op = "Verify" =>
                /\ k > 4
                /\ log[k - 4].op = "Copy" /\ log[k - 4].pos = log[k].pos
                /\ log[k - 1].op = "sha256SumFile" /\ log[k - 1].arg = log[k - 4].arg
                /\ log[k].arg = Sha256Sum(files[log[k - 4].arg])
                /\ files[log[k - 4].arg] = Art(log[k].pos).Object
                /\ log[k].arg # Art(log[k].pos).Metadata.SHA256 =>
                      k = Len(log) /\ Returned /\ Failed
          /\ (log[k].op = "UntarGz" /\ (k < Len(log) \/ ~Failed)) =>
                /\ log[k - 5].op = "Copy" /\ log[k - 5].pos = log[k].pos
                /\ dirs[log[k].arg] = FileEntries(log[k - 5].arg)
    /\ pc = "UntarGz" =>
          /\ offset = 0
          /\ files[f] = a.Object
          /\ log[Len(log) - 4].op = "Copy" /\ log[Len(log) - 4].arg = f

\* the download of a server artifact stopped part-way, after the manifests
\* artifact had been extracted
C13_Witness ==
    /\ Returned
    /\ \E p \in PosOfKind("manifests") : Calls("UntarGz", p) # {}
    /\ \E k \in LogIdx :
          /\ log[k].op = "Copy"
          /\ Art(log[k].pos).Kind = "server"
          /\ files[log[k].arg] # <<>>
          /\ files[log[k].arg] # Art(log[k].pos).Object


(***************************************************************************)
(* C14: no count is required of server or client artifacts: with one       *)
(* manifests artifact Unpack fails only when a step fails, whatever the    *)
(* number of server artifacts, and with none of them it succeeds with an   *)
(* empty map that is not nil; nothing is ever done for a client artifact,  *)
(* and the result is what the manifests and server artifacts alone give,   *)
(* wherever client artifacts stand in the list.                            *)
(***************************************************************************)
\* the entries of an archive
ObjectEntries(bytes) == {EntryTable[bytes[n]] : n \in 1..Len(bytes)}

\* bundles after the image archives paths[n..] of one server artifact,
\* extracted to d, have been added
RECURSIVE ClassifyFrom(_, _, _, _, _)
ClassifyFrom(bundles, art, d, paths, n) ==
    IF n > Len(paths) THEN bundles
    ELSE ClassifyFrom(
             AppendBundle(bundles, ComponentName(paths[n]),
                          NewTar(ObjectEntries(art.Object), d, paths[n],
                                 art.Metadata.OS, art.Metadata.Architecture)),
             art, d, paths, n + 1)

\* bundles after the server artifacts servers[k..] have been added, the
\* k-th being extracted to the directory created after those before it
RECURSIVE BundlesFrom(_, _, _)
BundlesFrom(bundles, servers, k) ==
    IF k > Len(servers) THEN bundles
    ELSE LET d == TempDirName(k + 2)
             paths == recursiveFindWithExt(ObjectEntries(servers[k].Object), d, ".tar", 0).paths
         IN  BundlesFrom(ClassifyFrom(bundles, servers[k], d, paths, 1), servers, k + 1)

\* what the manifests artifact m and the server artifacts give
ResultOf(m, servers) ==
    LET d == TempDirName(2)
        tree == ObjectEntries(m.Object)
        tgz == recursiveFindWithExt(tree, d, ".tgz", 0).paths
        yaml == recursiveFindWithExt(tree, d, ".yaml", 0).paths
    IN  [ReleaseVersion |-> release.metadata.ReleaseVersion,
         GitCommitRef |-> release.metadata.GitCommitRef,
         YAMLs |-> [n \in 1..Len(yaml) |-> NewYAML(yaml[n])],
         Charts |-> [n \in 1..Len(tgz) |-> NewChart(tgz[n])],
         ComponentImageBundles |-> BundlesFrom(EmptyMap, servers, 1)]

C14_NoServerClientCardinality ==
    /\ \A k \in LogIdx : Art(log[k].pos).Kind # "client"
    /\ (Failed /\ Cardinality(PosOfKind("manifests")) = 1) =>
          /\ log # <<>>
          /\ ret.err.op \in {log[Len(log)].op, "mismatching checksum", "walk",
                              "failed to inspect image tar"}
    /\ Succeeded =>
          LET notClient == SelectSeq(release.artifacts, LAMBDA x : x.Kind # "client")
              m == SelectSeq(notClient, LAMBDA x : x.Kind = "manifests")
              servers == SelectSeq(notClient, LAMBDA x : x.Kind = "server")
          IN  /\ Len(m) = 1
              /\ ret.unpacked = ResultOf(m[1], servers)
              /\ ret.unpacked.ComponentImageBundles # Nil
              /\ servers = <<>> => ret.unpacked.ComponentImageBundles = EmptyMap
              /\ Cardinality({k \in LogIdx : log[k].op = "UntarGz"}) = 1 + Len(servers)

\* a release of a manifests artifact between two client artifacts, and no
\* server artifact, has been unpacked
C14_Witness ==
    /\ Succeeded
    /\ Len(release.artifacts) = 3
    /\ Art(1).Kind = "client" /\ Art(2).Kind = "manifests" /\ Art(3).Kind = "client"
    /\ ret.unpacked.ComponentImageBundles = EmptyMap
    /\ ret.unpacked.Charts # <<>>


(***************************************************************************)
(* C19: Unpack removes nothing it creates: the destination directory of an *)
(* artifact is created before the artifact is downloaded, and every        *)
(* directory and download file created so far exists at every moment and   *)
(* when Unpack returns; an artifact refused on its digest leaves its       *)
(* destination directory, empty, and its download file, whole.             *)
(***************************************************************************)
C19_NothingRemoved ==
    \A k \in LogIdx :
        /\ (log[k].op = "TempDir" /\ log[k].arg # "") => log[k].arg \in DOMAIN dirs
        /\ (log[k].op = "TempFile" /\ log[k].arg # "") => log[k].arg \in DOMAIN files
        /\ log[k].op = "NewReader" =>
              /\ k > 2
              /\ log[k - 2].op = "TempDir" /\ log[k - 2].pos = log[k].pos
              /\ log[k - 2].arg \in DOMAIN dirs
        /\ (log[k].op = "Verify" /\ log[k].arg # Art(log[k].pos).Metadata.SHA256) =>
              /\ log[k - 7].op = "TempDir" /\ log[k - 7].pos = log[k].pos
              /\ log[k - 7].arg \in DOMAIN dirs
              /\ dirs[log[k - 7].arg] = {}
              /\ log[k - 6].op = "TempFile" /\ log[k - 6].pos = log[k].pos
              /\ log[k - 6].arg \in DOMAIN files
              /\ files[log[k - 6].arg] = Art(log[k].pos).Object

\* Unpack returned after refusing the second of its artifacts on its digest,
\* leaving two directories and two download files beside the old ones
C19_Witness ==
    /\ Returned
    /\ caller = "unpackServerImagesFromRelease"
    /\ ret.err = Error("mismatching checksum", a.Metadata.Name)
    /\ dirs[dest] = {}
    /\ files[f] = a.Object
    /\ manifestsDir \in DOMAIN dirs /\ dirs[manifestsDir] # {}
    /\ Cardinality(DOMAIN dirs) = 3
    /\ Cardinality(DOMAIN files) = 3

(***************************************************************************)
(* What the properties of the stage command speak of.                      *)
(***************************************************************************)
StageIdx == 1..Len(stageLog)
StageReturned == stagePc = "done"
StageSucceeded == StageReturned /\ stageErr = Nil
StageFailed == StageReturned /\ stageErr # Nil

\* the steps of an operation taken so far
StageSteps(op) == {k \in StageIdx : stageLog[k].op = op}

\* the artifacts the pairs targets[n..] give, then the manifests archive
RECURSIVE ExpectedNames(_)
ExpectedNames(n) ==
    IF n > Len(targets) THEN <<ManifestsName>>
    ELSE ArtifactNames(targets[n].os, targets[n].arch, releaseVersion)
            \o ExpectedNames(n + 1)

\* a step that builds, postprocesses or hashes
IsBuildStep(e) == e.op \in {"runBazel", "postprocess", "sha256SumFile"}

\* a step that touches the storage bucket
IsPushStep(e) == e.op \in {"NewClient", "upload", "metadata"}

(***************************************************************************)
(* C15: with SkipPush no storage client is made and nothing is uploaded,   *)
(* neither an artifact nor the metadata; the command still builds every    *)
(* target, postprocesses the manifests archive and hashes every artifact,  *)
(* returns the failure of any of these, and returns success only when all  *)
(* of them succeeded.                                                      *)
(***************************************************************************)
C15_SkipPush ==
    o.SkipPush =>
        /\ gcs = Nil
        /\ bucket = EmptyMap
        /\ \A k \in StageIdx : ~IsPushStep(stageLog[k])
        /\ \A k \in StageIdx :
              ~stageLog[k].ok => k = Len(stageLog) /\ StageFailed
        /\ StageSucceeded =>
              /\ \A k \in StageIdx : stageLog[k].ok
              /\ targets # <<>>
              /\ Cardinality(StageSteps("runBazel")) = Len(targets)
              /\ [n \in 1..Len(artifacts) |-> artifacts[n].Name] = ExpectedNames(1)
              /\ Cardinality(StageSteps("sha256SumFile")) = Len(artifacts)
              /\ \E k \in StageSteps("postprocess") : stageLog[k].name = ManifestsName
              /\ meta = Metadata(o.ReleaseVersion, gitRef, artifacts)

\* with SkipPush three targets were built, nine artifacts hashed and the
\* manifests archive signed, and the command returned success
C15_Witness ==
    /\ o.SkipPush
    /\ ~o.SkipSigning
    /\ StageSucceeded
    /\ Len(targets) = 3
    /\ Len(artifacts) = 9
    /\ bazelBin[ManifestsName] = Signed(BuiltBytes(ManifestsName))

(***************************************************************************)
(* C16: the manifests archive is hashed only after its postprocess has     *)
(* succeeded, so the SHA256 recorded for it, and kept in the metadata, is  *)
(* the digest of the postprocessed file, the one that is uploaded; when    *)
(* the postprocess or the hashing of an artifact fails, an error is        *)
(* returned and nothing has been appended for that artifact.               *)
(***************************************************************************)
C16_HashAfterPostprocess ==
    /\ \A k \in StageIdx :
          /\ (stageLog[k].op = "sha256SumFile" /\ stageLog[k].name = ManifestsName) =>
                /\ k > 1
                /\ stageLog[k - 1] = [op |-> "postprocess", name |-> ManifestsName, ok |-> TRUE]
          /\ (stageLog[k].op \in {"postprocess", "sha256SumFile"} /\ ~stageLog[k].ok) =>
                /\ k = Len(stageLog)
                /\ StageFailed
                /\ stageErr.ctx = stageLog[k].name
                /\ \A n \in 1..Len(artifacts) : artifacts[n].Name # stageLog[k].name
    /\ Len(artifacts) = Cardinality({k \in StageSteps("sha256SumFile") : stageLog[k].ok})
    /\ \A n \in 1..Len(artifacts) :
          LET name == artifacts[n].Name
              object == buildObjectName(outputDir, name)
          IN  /\ artifacts[n].SHA256 = Sha256Sum(bazelBin[name])
              /\ (name = ManifestsName /\ ~o.SkipSigning) =>
                    artifacts[n].SHA256 = Sha256Sum(Signed(BuiltBytes(name)))
              /\ object \in DOMAIN bucket =>
                    artifacts[n].SHA256 = Sha256Sum(bucket[object])
              /\ meta # Nil => meta.Artifacts[n] = artifacts[n]

\* the signed manifests archive has been uploaded, and its recorded digest
\* is not the digest of the archive as built
C16_Witness ==
    /\ artifacts # <<>>
    /\ artifacts[Len(artifacts)].Name = ManifestsName
    /\ buildObjectName(outputDir, ManifestsName) \in DOMAIN bucket
    /\ artifacts[Len(artifacts)].SHA256 # Sha256Sum(BuiltBytes(ManifestsName))
    /\ bucket[buildObjectName(outputDir, ManifestsName)] = Signed(BuiltBytes(ManifestsName))

(***************************************************************************)
(* C17: the metadata object is written only after every artifact of the    *)
(* list has been uploaded and its writer closed without error: when the    *)
(* metadata is written, the uploads of all listed artifacts, in order and  *)
(* all successful, come right before it; when an upload fails an error is  *)
(* returned and the metadata is never written.                             *)
(***************************************************************************)
MetadataObject == buildObjectName(outputDir, MetadataFileName)

C17_MetadataLast ==
    /\ \A k \in StageIdx :
          /\ stageLog[k].op = "metadata" =>
                /\ k = Len(stageLog)
                /\ k > Len(artifacts)
                /\ \A n \in 1..Len(artifacts) :
                      /\ stageLog[k - Len(artifacts) + n - 1]
                            = [op |-> "upload", name |-> artifacts[n].Name, ok |-> TRUE]
                      /\ buildObjectName(outputDir, artifacts[n].Name) \in DOMAIN bucket
                      /\ bucket[buildObjectName(outputDir, artifacts[n].Name)]
                            = bazelBin[artifacts[n].Name]
          /\ (stageLog[k].op = "upload" /\ ~stageLog[k].ok) =>
                /\ k = Len(stageLog)
                /\ StageFailed
                /\ stageErr = Error("failed to copy output artifact to GCS staging location", "")
                /\ StageSteps("metadata") = {}
                /\ MetadataObject \notin DOMAIN bucket
    /\ MetadataObject \in DOMAIN bucket =>
          /\ StageSteps("metadata") # {}
          /\ bucket[MetadataObject] = Metadata(o.ReleaseVersion, gitRef, artifacts)

\* the upload of the fourth of nine artifacts failed on Close, the object
\* having been stored, and the command returned without writing the metadata
C17_Witness ==
    /\ StageFailed
    /\ Len(artifacts) = 9
    /\ ui = 4
    /\ stageLog[Len(stageLog)] = [op |-> "upload", name |-> artifacts[4].Name, ok |-> FALSE]
    /\ buildObjectName(outputDir, artifacts[4].Name) \in DOMAIN bucket
    /\ Cardinality(DOMAIN bucket) = 4

(***************************************************************************)
(* C18: nothing is uploaded before every targeted build, every artifact's  *)
(* checksum and the postprocess of the manifests archive have succeeded:   *)
(* the first step that touches the bucket comes after all of them, and a   *)
(* failed build, postprocess or checksum returns an error with no upload   *)
(* made and nothing in the bucket.                                         *)
(***************************************************************************)
C18_BuildBeforeUpload ==
    /\ \A k \in StageIdx :
          /\ IsPushStep(stageLog[k]) =>
                /\ k > 1
                /\ stageLog[k - 1].ok
                /\ IsPushStep(stageLog[k - 1])
                      \/ stageLog[k - 1]
                            = [op |-> "sha256SumFile", name |-> ManifestsName, ok |-> TRUE]
          /\ (stageLog[k].op = "sha256SumFile" /\ stageLog[k].name = ManifestsName
                /\ stageLog[k].ok) =>
                /\ \A m \in 1..k : stageLog[m].ok
                /\ Cardinality({m \in 1..k : stageLog[m].op = "runBazel"}) = Len(targets)
                /\ Cardinality({m \in 1..k : stageLog[m].op = "sha256SumFile"})
                      = Len(ExpectedNames(1))
                /\ \E m \in 1..k : stageLog[m].op = "postprocess"
          /\ (IsBuildStep(stageLog[k]) /\ ~stageLog[k].ok) =>
                /\ k = Len(stageLog)
                /\ StageFailed
                /\ bucket = EmptyMap
                /\ gcs = Nil
    /\ bucket # EmptyMap => \E k \in StageIdx : stageLog[k].op = "upload"

\* without SkipPush, the second of three builds failed and the command
\* returned with nothing uploaded
C18_Witness ==
    /\ ~o.SkipPush
    /\ StageFailed
    /\ Len(targets) = 3
    /\ ti = 2
    /\ stageLog[Len(stageLog)].op = "runBazel"
    /\ artifacts # <<>>
    /\ bucket = EmptyMap

=============================================================================
